---- MODULE Spec2Model ----
(***************************************************************************)
(* Daemon runtime of sovereign: one owner thread holds the Orchestrator    *)
(* and consumes OrchestratorMessage values from a bounded mpsc channel.    *)
(* Unix/TCP line connections, WebSocket connections and the file watcher   *)
(* are the senders.  Strings are sequences of tokens; " " is the blank.    *)
(***************************************************************************)
EXTENDS Integers, Sequences, FiniteSets, TLC

\* ---------------------------------------------------------------- bounds
\* Total number of lines, frames and watcher dispatches in one behaviour
MaxInputs == 3
\* Number of file-system events notify reports in one behaviour
MaxEvents == 3
\* Number of add / update_importance / add_tag / delete calls in one behaviour
MaxOps == 3
\* Number of save() calls of the document's owner in one behaviour
MaxSaves == 2
\* Longest blob, in bytes, a sync peer sends whole
MaxLen == 2
\* Number of file creations and modifications under the indexed root
MaxEdits == 2
\* Number of index_directory calls in one behaviour
MaxRuns == 2
\* lines of a file given to chunk_content
MaxLines == 4
\* characters after the ASCII part of a command's result
MaxTail == 2
\* /sync-pull, /sync-push and /sync-live commands in one behaviour
MaxSyncs == 2

\* ------------------------------------------------------ program constants
ChannelCapacity == 100
chunk_size == 100
DEBOUNCE_DELAY == 500

None == "None"

\* Option values: the empty sequence, or a sequence of one element
Absent == <<>>
Some(x) == <<x>>

\* Line connections, named in the order in which their first line is read
ConnOrder == <<"c1", "c2">>
Conns == {ConnOrder[i] : i \in 1..Len(ConnOrder)}
WsConns == {"w1"}
Watcher == "watcher"
Clients == Conns \cup WsConns \cup {Watcher}

\* Other connections that already have one request queued in the loaded
\* initial state; their handlers are only awaiting the reply.
Preload == ChannelCapacity - 1

\* --------------------------------------------------------------- inputs
\* DaemonRequest / WsRequest bodies a client can put on a line
Requests ==
  { [command |-> <<"/index">>, args |-> Some(<<"/proj">>)],
    [command |-> <<"hello">>, args |-> Absent] }

\* A line read from a socket: valid JSON of a DaemonRequest, or not
NoRequest == [command |-> <<>>, args |-> Absent]

Lines ==
  { [json |-> TRUE, req |-> r] : r \in Requests } \cup { [json |-> FALSE, req |-> NoRequest] }

\* Outcome of the external collaborators (language model, memory database)
\* during one command: a reply of len bytes, or a failure
ExtOutcomes ==
  { [ok |-> TRUE, len |-> 0], [ok |-> TRUE, len |-> 250], [ok |-> FALSE, len |-> 0] }

\* ------------------------------------------------------------ strings
RECURSIVE TrimStart(_)
TrimStart(s) == IF s # <<>> /\ Head(s) = " " THEN TrimStart(Tail(s)) ELSE s

RECURSIVE TrimEnd(_)
TrimEnd(s) ==
  IF s # <<>> /\ s[Len(s)] = " " THEN TrimEnd(SubSeq(s, 1, Len(s) - 1)) ELSE s

Trim(s) == TrimEnd(TrimStart(s))

\* Tokens whose first character is '/'
SlashTokens ==
  { "/search", "/s", "/symbol", "/sym", "/ask", "/q", "/read", "/cat",
    "/summarize", "/sum", "/embed", "/stats", "/memory", "/mem", "/clear",
    "/help", "/h", "/index", "/proj" }

StartsWithSlash(s) == s # <<>> /\ Head(s) \in SlashTokens

\* Index of the first blank of s, or 0
RECURSIVE FirstBlank(_, _)
FirstBlank(s, i) ==
  IF i > Len(s) THEN 0 ELSE IF s[i] = " " THEN i ELSE FirstBlank(s, i + 1)

\* input.splitn(2, ' '): the part before the first blank and the rest
SplitCmd(s) ==
  LET b == FirstBlank(s, 1)
  IN  IF b = 0 THEN [cmd |-> s, args |-> <<>>]
      ELSE [cmd |-> SubSeq(s, 1, b - 1), args |-> Trim(SubSeq(s, b + 1, Len(s)))]

\* format!("{} {}", command, args) or the bare command
FormatInput(req) ==
  IF req.args # Absent THEN req.command \o <<" ">> \o req.args[1] ELSE req.command

\* Variant: the message always names the watched directory
WatcherInput_Watched(root) == <<"/index", " ", "/proj">>

\* format!("/index {}", root.display())
WatcherInput(root) == <<"/index", " ", root>>

\* ------------------------------------------------------- orchestrator
Ok(text, len) == [ok |-> TRUE, text |-> text, len |-> len]
Err(text) == [ok |-> FALSE, text |-> text, len |-> 0]

OrchestratorNew == [codebase |-> None, conversation |-> <<"system">>]

\* The owner thread has not constructed its Orchestrator yet
NoOrchestrator == [codebase |-> None, conversation |-> <<>>]

\* ChatAgent::chat: the user message is pushed before the model is called
Chat(o, ext) ==
  IF ext.ok
  THEN [res |-> Ok("llm", ext.len),
        orch |-> [o EXCEPT !.conversation = @ \o <<"user", "assistant">>]]
  ELSE [res |-> Err("backend unavailable"),
        orch |-> [o EXCEPT !.conversation = @ \o <<"user">>]]

ClearConversation(o) == [o EXCEPT !.conversation = SubSeq(@, 1, 1)]

NoIndexLong == Ok("No codebase indexed. Use /index <path> first.", 45)
NoIndexShort == Ok("No codebase indexed.", 20)

Collaborator(ext) == IF ext.ok THEN Ok("llm", ext.len) ELSE Err("backend unavailable")

\* Byte length of a command token
TokenBytes(t) == CASE t = "/index" -> 6 [] t = "/proj" -> 5 [] OTHER -> 0

HandleCommand(o, input, ext) ==
  LET p == SplitCmd(input)
      cmd == IF p.cmd = <<>> THEN "" ELSE p.cmd[1]
      keep(r) == [res |-> r, orch |-> o]
  IN  CASE cmd \in {"/search", "/s", "/symbol", "/sym", "/ask", "/q", "/embed"} ->
             IF o.codebase # None THEN keep(Collaborator(ext)) ELSE keep(NoIndexLong)
        [] cmd \in {"/read", "/cat", "/summarize", "/sum"} ->
             IF o.codebase # None THEN keep(Collaborator(ext)) ELSE keep(NoIndexShort)
        [] cmd = "/stats" ->
             IF o.codebase # None
             THEN keep(Ok("Codebase Statistics", 60))
             ELSE keep(NoIndexShort)
        [] cmd \in {"/memory", "/mem"} -> keep(Collaborator(ext))
        [] cmd = "/clear" ->
             [res |-> Ok("Conversation cleared.", 21), orch |-> ClearConversation(o)]
        [] cmd \in {"/help", "/h"} -> keep(Ok("HELP_TEXT", 1197))
        [] OTHER -> keep(Ok("Unknown command", 53 + TokenBytes(cmd)))

ProcessCommand(o, rawInput, ext) ==
  LET input == Trim(rawInput)
  IN  IF StartsWithSlash(input) THEN HandleCommand(o, input, ext) ELSE Chat(o, ext)

\* ------------------------------------------------------------- state
VARIABLES
  ownerPc,     \* "starting", "idle", "exec", "dead" (receiver dropped), "stopped"
  cur,         \* message the owner is executing, or NoMsg
  chan,        \* request channel: messages sent and not yet received
  orch,        \* the Orchestrator held by the owner thread
  shutdown,    \* the listener runtime has been dropped (all senders gone)
  pc,          \* position of each listener-side task
  pendingMsg,  \* message a task at send() is holding
  slot,        \* one-shot reply slot of each task's outstanding message
  reqLog,      \* lines / frames read from each connection, in order
  resp,        \* response lines / events written to each connection
  wsLeft,      \* chunk byte counts still to be written on a WebSocket
  wtSent,      \* number of /index dispatches made by the watcher
  executing,   \* ids of commands started and not yet finished
  enqLog,      \* ids in the order they entered the channel
  everBlocked, \* ids of the messages a send() had to hold at a full channel
  recvLog,     \* ids in the order the owner received them
  done         \* commands the owner finished: id, input and result

daemonVars == << ownerPc, cur, chan, orch, shutdown, pc, pendingMsg, slot, reqLog, resp,
                 wsLeft, wtSent, executing, enqLog, everBlocked, recvLog, done >>

\* The event coalescer of the file watcher (watcher.rs)
VARIABLES
  rx,            \* notify events forwarded by the callback and not yet received
  pending_paths, \* admitted paths collected since the last dispatch
  sinceLast,     \* last_event.elapsed() in ms, counted up to DEBOUNCE_DELAY
  sleepLeft,     \* ms until the sleep of the current select! completes
  wtTask,        \* "select", or "processing" inside process_changes
  wtOut,         \* inputs of the messages sent by process_changes, in order
  evLog,         \* admitted events that arrived: burst number, covering dispatch
  quiet          \* ms since the last admitted event arrived, up to DEBOUNCE_DELAY

watcherVars == << rx, pending_paths, sinceLast, sleepLeft, wtTask, wtOut, evLog, quiet >>

\* Replicas of the CRDT memory document (crdt_memory.rs)
VARIABLES
  doc,      \* per replica: the operations of its document ({}: store not opened)
  since,    \* per replica: the peer it shares a start with, and what it did since
  exported  \* bytes of the last export(), <<>> before the first

crdtVars == << doc, since, exported >>

\* Sync server and the document file it serves (sync.rs, crdt_memory.rs save)
VARIABLES
  fs,        \* per path: whether the file exists, and its bytes
  saver,     \* the owner's save(): snapshot number and bytes still to write
  serverUp,  \* the process and its accept loop are running
  conn       \* per peer: its connection's handler, input so far and output

syncVars == << fs, saver, serverUp, conn >>

\* Codebase index (storage/codebase.rs)
VARIABLES
  disk,         \* per path under the root: whether the file exists, its bytes
  files_table,  \* per path: its row of the files table, if any
  files_fts,    \* per path: the content of the rows of files_fts with that path
  walking,      \* the index_directory call under way, or the last one
  idxRet,       \* what the last index_directory call returned, -1 before
  now,          \* Utc::now(), counted in rows written
  edits,        \* file creations and modifications so far
  runs,         \* index_directory calls so far
  dirty         \* a file changed since the last call began

indexVars == << disk, files_table, files_fts, walking, idxRet, now, edits, runs, dirty >>

\* One CrdtMemoryStore and the file it saves to (crdt_memory.rs)
VARIABLES
  store,          \* self.doc: the operations of the document ({}: no store yet)
  memories_file,  \* bytes of memories.automerge, <<>> while the file is absent
  utc_now,        \* Utc::now()
  last_call       \* the last call on the store, its arguments and what it returned

storeVars == << store, memories_file, utc_now, last_call >>

\* One hybrid search (rag.rs)
VARIABLES
  query_embedding,   \* the embedding of the query
  stored,            \* per file of the index: its embedding and the keyword hits
  semantic_results,  \* what semantic_search returned
  keyword_results,   \* what keyword_search returned
  merged,            \* what merge_results returned
  rag_pc             \* how far search() has come

ragVars == << query_embedding, stored, semantic_results, keyword_results, merged, rag_pc >>

\* One chunk_content call (rag.rs)
VARIABLES
  chunk_lines,  \* content.lines() of the file given to the call
  chunks,       \* the chunks the call returned
  chunk_pc      \* "idle", "call" before the call, "done" after it

chunkVars == << chunk_lines, chunks, chunk_pc >>

\* The events written for one successful WebSocket command (daemon.rs)
VARIABLES
  ws_result,  \* the result string of the command
  ws_chunks,  \* the pieces of `chunks` not yet sent
  ws_sent,    \* the events written to the socket, in order
  ws_pc       \* "idle", "reply", "streaming", "reading", "closed"

streamVars == << ws_result, ws_chunks, ws_sent, ws_pc >>

\* The /sync-pull, /sync-push and /sync-live commands of the orchestrator
\* that owns the store (agents/orchestrator.rs, sync.rs)
VARIABLES
  exchange,    \* the last of these commands and what the peer did during it
  cmd_result,  \* what process_command returned for it, as the daemon client sees it
  process_up,  \* the daemon process runs
  owner_up,    \* the owner thread runs
  syncs        \* commands of this kind so far

peerVars == << exchange, cmd_result, process_up, owner_up, syncs >>

nonDaemonVars == << watcherVars, crdtVars, syncVars, indexVars, storeVars, ragVars, chunkVars, streamVars, peerVars >>
nonWatcherVars == << daemonVars, crdtVars, syncVars, indexVars, storeVars, ragVars, chunkVars, streamVars, peerVars >>
nonCrdtVars == << daemonVars, watcherVars, syncVars, indexVars, storeVars, ragVars, chunkVars, streamVars, peerVars >>
nonSyncVars == << daemonVars, watcherVars, crdtVars, indexVars, storeVars, ragVars, chunkVars, streamVars, peerVars >>
nonIndexVars == << daemonVars, watcherVars, crdtVars, syncVars, storeVars, ragVars, chunkVars, streamVars, peerVars >>
nonStoreVars == << daemonVars, watcherVars, crdtVars, syncVars, indexVars, ragVars, chunkVars, streamVars, peerVars >>
nonRagVars == << daemonVars, watcherVars, crdtVars, syncVars, indexVars, storeVars, chunkVars, streamVars, peerVars >>
nonStreamVars ==
  << daemonVars, watcherVars, crdtVars, syncVars, indexVars, storeVars, ragVars, chunkVars,
     peerVars >>
nonStorePeerVars ==
  << daemonVars, watcherVars, crdtVars, syncVars, indexVars, ragVars, chunkVars, streamVars >>
nonChunkVars == << daemonVars, watcherVars, crdtVars, syncVars, indexVars, storeVars, ragVars, streamVars, peerVars >>

vars == << daemonVars, nonDaemonVars >>

\* FileWatcher::new: nothing pending, last_event = Instant::now(), first sleep
WatcherStart ==
  /\ rx = <<>>
  /\ pending_paths = {}
  /\ sinceLast = 0
  /\ sleepLeft = DEBOUNCE_DELAY
  /\ wtTask = "select"
  /\ wtOut = <<>>
  /\ evLog = <<>>
  /\ quiet = DEBOUNCE_DELAY

\* Replicas, in the order in which their stores are opened
ReplicaOrder == <<"A", "B">>
Replicas == {ReplicaOrder[i] : i \in 1..Len(ReplicaOrder)}

NoPeer == [from |-> "", base |-> {}, added |-> {}, deleted |-> {}]

\* No store has been opened
CrdtStart ==
  /\ doc = [r \in Replicas |-> {}]
  /\ since = [r \in Replicas |-> NoPeer]
  /\ exported = <<>>

Peers == { "p1", "p2" }

\* sync_file() and what with_extension makes of it: <<stem, extension>>
sync_file == << "memories", "automerge" >>
with_extension(path, ext) == << path[1], ext >>
Paths == { sync_file, with_extension(sync_file, "incoming") }

NoFile == [exists |-> FALSE, bytes |-> <<>>]
NoConn == [pc |-> "none", cmd |-> "", len |-> 0, got |-> 0, eof |-> FALSE,
           sent |-> <<>>, wrote |-> FALSE, racing |-> 0]

NoArgs == [id |-> <<"", 0>>, content |-> "", type |-> "", project |-> "",
           importance |-> 0, tag |-> "", bytes |-> <<>>, heads |-> {}]
NoCall == [name |-> "", args |-> NoArgs, ok |-> TRUE, id |-> <<"", 0>>, err |-> "",
           some |-> FALSE, data |-> <<>>, peer |-> <<>>]

\* No store made yet, no file in the data directory
StoreStart ==
  /\ store = {}
  /\ memories_file = <<>>
  /\ utc_now = 2
  /\ last_call = NoCall

\* No search under way
RagIdle ==
  /\ query_embedding = <<1, 0>>
  /\ stored = <<>>
  /\ semantic_results = {}
  /\ keyword_results = {}
  /\ merged = <<>>
  /\ rag_pc = "idle"

\* No sync command yet
PeerStart ==
  /\ exchange = [cmd |-> "", kind |-> "", len |-> 0, data |-> <<>>]
  /\ cmd_result = [some |-> FALSE, success |-> FALSE, text |-> <<>>]
  /\ process_up = TRUE
  /\ owner_up = TRUE
  /\ syncs = 0

\* No result to send
StreamIdle ==
  /\ ws_result = <<>>
  /\ ws_chunks = <<>>
  /\ ws_sent = <<>>
  /\ ws_pc = "idle"

\* No chunk_content call
ChunkIdle ==
  /\ chunk_lines = <<>>
  /\ chunks = <<>>
  /\ chunk_pc = "idle"

\* Nothing saved yet, nobody connected
SyncStart ==
  /\ fs = [p \in Paths |-> NoFile]
  /\ saver = [n |-> 0, left |-> <<>>]
  /\ serverUp = TRUE
  /\ conn = [c \in Peers |-> NoConn]

\* files under the indexed root, in the order the walk visits them
WalkOrder ==
  << [dirs |-> <<"src">>, stem |-> "a", ext |-> "rs"],
     [dirs |-> <<>>, stem |-> "b", ext |-> "py"],
     [dirs |-> <<>>, stem |-> "c", ext |-> "txt"],
     [dirs |-> <<"node_modules">>, stem |-> "d", ext |-> "rs"],
     [dirs |-> <<"target">>, stem |-> "e", ext |-> "rs"] >>
IndexPaths == { WalkOrder[i] : i \in 1..Len(WalkOrder) }

\* the directories a rule of the root's .gitignore names
GitIgnoreRules == { "node_modules" }

\* git_ignore(true): the walk leaves out what a gitignore rule covers;
\* hidden(false): it does not leave out names that begin with a dot
Walked(p) == ~\E i \in DOMAIN p.dirs : p.dirs[i] \in GitIgnoreRules

TextFile(t) == [exists |-> TRUE, utf8 |-> TRUE, text |-> t]
NoRow == [present |-> FALSE, language |-> "", hash |-> <<>>, content |-> "", indexed_at |-> 0]

\* CodebaseIndex::new on a fresh data directory and a root of five files
IndexStart ==
  /\ disk = [p \in IndexPaths |->
              CASE p.ext = "rs" -> TextFile("pub fn foo(){}")
                [] p.ext = "py" -> TextFile("def bar(): pass")
                [] OTHER -> TextFile("hello")]
  /\ files_table = [p \in IndexPaths |-> NoRow]
  /\ files_fts = [p \in IndexPaths |-> <<>>]
  /\ walking = [active |-> FALSE, rest |-> <<>>, count |-> 0, clean |-> FALSE,
                before |-> [p \in IndexPaths |-> NoRow]]
  /\ idxRet = -1
  /\ now = 1
  /\ edits = 0
  /\ runs = 0
  /\ dirty = FALSE

Sockets == Conns \cup WsConns

EmptySlot == [st |-> "none", val |-> Absent]
WaitingSlot == [st |-> "waiting", val |-> Absent]

NoMsg == [id |-> <<"none", 0>>, input |-> <<>>]

BgMsg(i) == [id |-> <<"bg", i>>, input |-> <<"/stats">>]

InitCommon ==
  /\ ownerPc = "starting"
  /\ cur = NoMsg
  /\ orch = NoOrchestrator
  /\ shutdown = FALSE
  /\ pc = [c \in Clients |-> IF c = Watcher THEN "idle" ELSE "new"]
  /\ pendingMsg = [c \in Clients |-> NoMsg]
  /\ slot = [c \in Clients |-> EmptySlot]
  /\ reqLog = [c \in Sockets |-> <<>>]
  /\ resp = [c \in Sockets |-> <<>>]
  /\ wsLeft = [w \in WsConns |-> <<>>]
  /\ wtSent = 0
  /\ executing = {}
  /\ everBlocked = {}
  /\ recvLog = <<>>
  /\ done = {}

\* Daemon::new has returned: channel created, owner thread spawned
DaemonStart ==
  /\ InitCommon
  /\ chan = <<>>
  /\ enqLog = <<>>

Init ==
  /\ DaemonStart
  /\ WatcherStart
  /\ CrdtStart
  /\ SyncStart
  /\ IndexStart
  /\ StoreStart
  /\ RagIdle /\ ChunkIdle /\ StreamIdle /\ PeerStart

\* The same, with Preload other connections already queued behind a slow start
InitLoaded ==
  /\ InitCommon
  /\ chan = [i \in 1..Preload |-> BgMsg(i)]
  /\ enqLog = [i \in 1..Preload |-> <<"bg", i>>]
  /\ WatcherStart
  /\ CrdtStart
  /\ SyncStart
  /\ IndexStart
  /\ StoreStart
  /\ RagIdle /\ ChunkIdle /\ StreamIdle /\ PeerStart

\* Inputs submitted so far
RECURSIVE SumLen(_, _)
SumLen(f, S) ==
  IF S = {} THEN 0 ELSE LET c == CHOOSE x \in S : TRUE IN Len(f[c]) + SumLen(f, S \ {c})

Submitted == SumLen(reqLog, Sockets) + wtSent

\* ------------------------------------------------------------ channel
\* The receiver half has been dropped
RxClosed == ownerPc \in {"dead", "stopped"}

\* Variant: the capacity test is off by one
HasRoom_OffByOne(ch) == Len(ch) <= ChannelCapacity

\* mpsc::channel(100): a permit is free
HasRoom(ch) == Len(ch) < ChannelCapacity

\* ids of the messages that the senders in p, holding q, cannot put into ch
Held(p, q, ch) ==
  IF RxClosed \/ HasRoom(ch) THEN {}
  ELSE { q[c].id : c \in {x \in Clients : p[x] = "sending"} }

\* the message is built and the task reaches request_tx.send(msg).await
Stage(c, msg) ==
  /\ pendingMsg' = [pendingMsg EXCEPT ![c] = msg]
  /\ pc' = [pc EXCEPT ![c] = "sending"]
  /\ everBlocked' = everBlocked \cup Held(pc', pendingMsg', chan)
  /\ UNCHANGED <<chan, enqLog, slot>>

\* send() completed: the message is in the channel, the task awaits the reply
Enqueue(c, msg) ==
  /\ chan' = Append(chan, msg)
  /\ enqLog' = Append(enqLog, msg.id)
  /\ slot' = [slot EXCEPT ![c] = WaitingSlot]
  /\ pc' = [pc EXCEPT ![c] = "awaiting"]
  /\ pendingMsg' = [pendingMsg EXCEPT ![c] = NoMsg]
  /\ everBlocked' = everBlocked \cup Held(pc', pendingMsg', chan')

\* ------------------------------------------------------------- owner
\* Orchestrator::new succeeds or fails; on failure the thread returns and the
\* receiver is dropped together with every queued message and its reply sender
OwnerStart ==
  /\ ownerPc = "starting"
  /\ \E ok \in BOOLEAN :
       IF ok
       THEN /\ ownerPc' = "idle"
            /\ orch' = OrchestratorNew
            /\ UNCHANGED <<chan, slot>>
       ELSE /\ ownerPc' = "dead"
            /\ chan' = <<>>
            /\ slot' = [c \in Clients |->
                         IF \E i \in 1..Len(chan) : chan[i].id[1] = c
                         THEN [st |-> "txdropped", val |-> Absent]
                         ELSE slot[c]]
            /\ UNCHANGED orch
  /\ UNCHANGED <<cur, shutdown, pc, pendingMsg, reqLog, resp, wsLeft,
                 wtSent, executing, enqLog, everBlocked, recvLog, done>>
  /\ UNCHANGED nonDaemonVars

\* Variant: a message is received while the previous command is still running
OwnerRecv_Overlap ==
  /\ ownerPc \in {"idle", "exec"}
  /\ chan # <<>>
  /\ cur' = Head(chan)
  /\ chan' = Tail(chan)
  /\ ownerPc' = "exec"
  /\ recvLog' = Append(recvLog, Head(chan).id)
  /\ executing' = executing \cup {Head(chan).id}
  /\ UNCHANGED <<orch, shutdown, pc, pendingMsg, slot, reqLog, resp,
                 wsLeft, wtSent, enqLog, everBlocked, done>>
  /\ UNCHANGED nonDaemonVars

\* Variant: the newest message is received first
OwnerRecv_Lifo ==
  /\ ownerPc = "idle"
  /\ chan # <<>>
  /\ cur' = chan[Len(chan)]
  /\ chan' = SubSeq(chan, 1, Len(chan) - 1)
  /\ ownerPc' = "exec"
  /\ recvLog' = Append(recvLog, chan[Len(chan)].id)
  /\ executing' = executing \cup {chan[Len(chan)].id}
  /\ UNCHANGED <<orch, shutdown, pc, pendingMsg, slot, reqLog, resp,
                 wsLeft, wtSent, enqLog, everBlocked, done>>
  /\ UNCHANGED nonDaemonVars

\* request_rx.recv() yields the oldest message
OwnerRecv ==
  /\ ownerPc = "idle"
  /\ chan # <<>>
  /\ cur' = Head(chan)
  /\ chan' = Tail(chan)
  /\ ownerPc' = "exec"
  /\ recvLog' = Append(recvLog, Head(chan).id)
  /\ executing' = executing \cup {Head(chan).id}
  /\ UNCHANGED <<orch, shutdown, pc, pendingMsg, slot, reqLog, resp,
                 wsLeft, wtSent, enqLog, everBlocked, done>>
  /\ UNCHANGED nonDaemonVars

\* Variant: the result of response_tx.send is unwrapped
AfterReply_Unwrap(s) == IF s.st = "rxdropped" THEN "dead" ELSE "idle"

\* let _ = msg.response_tx.send(result): the owner's state after the reply
\* was handed to slot s
AfterReply(s) == "idle"

\* process_command runs to its end, then the reply is sent
OwnerFinish ==
  /\ ownerPc = "exec"
  /\ \E ext \in ExtOutcomes :
       LET r == ProcessCommand(orch, cur.input, ext)
           from == cur.id[1]
       IN  /\ orch' = r.orch
           /\ done' = done \cup {[id |-> cur.id, input |-> cur.input, res |-> r.res]}
           /\ IF from \in Clients
              THEN /\ slot' = [slot EXCEPT ![from] =
                                 IF @.st = "waiting" THEN [st |-> "sent", val |-> Some(r.res)] ELSE @]
                   /\ ownerPc' = AfterReply(slot[from])
              ELSE /\ slot' = slot
                   /\ ownerPc' = AfterReply(WaitingSlot)
  /\ cur' = NoMsg
  /\ executing' = executing \ {cur.id}
  /\ UNCHANGED <<chan, shutdown, pc, pendingMsg, reqLog, resp, wsLeft,
                 wtSent, enqLog, everBlocked, recvLog>>
  /\ UNCHANGED nonDaemonVars

\* recv() yields None: every sender is gone and the channel is empty
OwnerStop ==
  /\ ownerPc = "idle"
  /\ chan = <<>>
  /\ shutdown
  /\ ownerPc' = "stopped"
  /\ UNCHANGED <<cur, chan, orch, shutdown, pc, pendingMsg, slot, reqLog,
                 resp, wsLeft, wtSent, executing, enqLog, everBlocked, recvLog, done>>
  /\ UNCHANGED nonDaemonVars

\* The listener runtime is dropped: every listener-side task is cancelled at
\* its await, so its reply receiver and its sender clone are dropped
RuntimeShutdown ==
  /\ ~shutdown
  /\ shutdown' = TRUE
  /\ pc' = [c \in Clients |-> "gone"]
  /\ pendingMsg' = [c \in Clients |-> NoMsg]
  /\ slot' = [c \in Clients |->
               IF slot[c].st = "waiting" THEN [st |-> "rxdropped", val |-> Absent]
               ELSE IF slot[c].st = "sent" THEN [st |-> "unread", val |-> Absent]
               ELSE slot[c]]
  /\ wsLeft' = [w \in WsConns |-> <<>>]
  /\ UNCHANGED <<ownerPc, cur, chan, orch, reqLog, resp, wtSent, executing, enqLog, everBlocked, recvLog, done>>
  /\ UNCHANGED nonDaemonVars

\* ------------------------------------------------- line connections
InvalidResponse ==
  [success |-> FALSE, result |-> Absent, error |-> "Invalid request"]

SendFailedText == "Orchestrator thread terminated"

\* Variant: a failed send is reported like a dropped reply
SendFailedResponse_ChannelClosed ==
  [success |-> FALSE, result |-> Absent, error |-> "Response channel closed"]

SendFailedResponse ==
  [success |-> FALSE, result |-> Absent, error |-> SendFailedText]

\* Variant: an error result is wrapped like a success
DaemonResponseOf_ErrAsOk(s) ==
  IF s.st = "sent"
  THEN [success |-> TRUE, result |-> Some([text |-> s.val[1].text, len |-> s.val[1].len]),
        error |-> None]
  ELSE [success |-> FALSE, result |-> Absent, error |-> "Response channel closed"]

\* match response_rx.await
DaemonResponseOf(s) ==
  IF s.st = "sent"
  THEN IF s.val[1].ok
       THEN [success |-> TRUE, result |-> Some([text |-> s.val[1].text, len |-> s.val[1].len]),
             error |-> None]
       ELSE [success |-> FALSE, result |-> Absent, error |-> s.val[1].text]
  ELSE [success |-> FALSE, result |-> Absent, error |-> "Response channel closed"]

\* Variant: a failed write is ignored and the loop goes on
WriteLine_IgnoreError(c, k, r) ==
  \/ /\ resp' = [resp EXCEPT ![c] = Append(@, [k |-> k, r |-> r])]
     /\ pc' = [pc EXCEPT ![c] = "reading"]
  \/ /\ resp' = resp
     /\ pc' = [pc EXCEPT ![c] = "reading"]

\* writer.write_all: the line reaches the client, or the write fails (the
\* peer has closed the connection) and the handler returns
WriteLine(c, k, r) ==
  \/ /\ resp' = [resp EXCEPT ![c] = Append(@, [k |-> k, r |-> r])]
     /\ pc' = [pc EXCEPT ![c] = "reading"]
  \/ /\ resp' = resp
     /\ pc' = [pc EXCEPT ![c] = "closed"]

\* Variant: the handler returns after reporting a malformed line
OnInvalid_ThenClose(c, k) ==
  /\ resp' = [resp EXCEPT ![c] = Append(@, [k |-> k, r |-> InvalidResponse])]
  /\ pc' = [pc EXCEPT ![c] = "closed"]

\* serde_json::from_str failed: the error response is returned and written
OnInvalid(c, k) == WriteLine(c, k, InvalidResponse)

\* read_line, then process_request up to its first suspension; for a
\* connection not yet made ("new") this is preceded by listener.accept() and
\* the spawn of the handler
ConnRead(c, line) ==
  /\ pc[c] \in {"new", "reading"}
  /\ \A i, j \in 1..Len(ConnOrder) : i < j /\ ConnOrder[j] = c => pc[ConnOrder[i]] # "new"
  /\ Submitted < MaxInputs
  /\ reqLog' = [reqLog EXCEPT ![c] = Append(@, line)]
  /\ LET k == Len(reqLog[c]) + 1
     IN  IF ~line.json
         THEN /\ OnInvalid(c, k)
              /\ UNCHANGED <<chan, enqLog, everBlocked, slot, pendingMsg>>
         ELSE /\ Stage(c, [id |-> <<c, k>>, input |-> FormatInput(line.req)])
              /\ UNCHANGED resp
  /\ UNCHANGED <<ownerPc, cur, orch, shutdown, wsLeft, wtSent,
                 executing, recvLog, done>>
  /\ UNCHANGED nonDaemonVars

\* request_tx.send(msg).await returns: the receiver was dropped, or a permit
\* was free and the message is in the channel; on a full channel it waits
ConnSend(c) ==
  /\ pc[c] = "sending"
  /\ IF RxClosed
     THEN /\ WriteLine(c, Len(reqLog[c]), SendFailedResponse)
          /\ pendingMsg' = [pendingMsg EXCEPT ![c] = NoMsg]
          /\ UNCHANGED <<chan, enqLog, everBlocked, slot>>
     ELSE /\ HasRoom(chan)
          /\ Enqueue(c, pendingMsg[c])
          /\ UNCHANGED resp
  /\ UNCHANGED <<ownerPc, cur, orch, shutdown, reqLog, wsLeft, wtSent, executing, recvLog, done>>
  /\ UNCHANGED nonDaemonVars

\* response_rx.await resolves; the response line is written
ConnReply(c) ==
  /\ pc[c] = "awaiting"
  /\ slot[c].st \in {"sent", "txdropped"}
  /\ WriteLine(c, Len(reqLog[c]), DaemonResponseOf(slot[c]))
  /\ slot' = [slot EXCEPT ![c] = EmptySlot]
  /\ UNCHANGED <<ownerPc, cur, chan, orch, shutdown, pendingMsg, reqLog,
                 wsLeft, wtSent, executing, enqLog, everBlocked, recvLog, done>>
  /\ UNCHANGED nonDaemonVars

\* --------------------------------------------------------- WebSocket
WsRequests == { [command |-> <<"hello">>, args |-> Absent] }

\* id of the event that answers a frame that could not be parsed ("unknown")
UnknownId == <<"unknown", 0>>

\* The k-th text frame of a connection: valid JSON of a WsRequest whose id the
\* client picks fresh, or not valid
WsFrames(k) ==
  { [json |-> TRUE, id |-> <<"id", k>>, req |-> r] : r \in WsRequests }
    \cup { [json |-> FALSE, id |-> UnknownId, req |-> NoRequest] }

Min(a, b) == IF a < b THEN a ELSE b

\* result.as_bytes().chunks(chunk_size): the byte counts of the pieces
RECURSIVE Chunks(_)
Chunks(len) ==
  IF len = 0 THEN <<>>
  ELSE <<Min(len, chunk_size)>> \o Chunks(len - Min(len, chunk_size))

WsEvent(k, id, event, data) == [k |-> k, id |-> id, event |-> event, data |-> data]

\* write.send(...).await?: the event reaches the client, or the handler returns
WsWrite(w, ev, next) ==
  \/ /\ resp' = [resp EXCEPT ![w] = Append(@, ev)]
     /\ pc' = [pc EXCEPT ![w] = next]
  \/ /\ resp' = resp
     /\ pc' = [pc EXCEPT ![w] = "closed"]

\* Variant: the id of the malformed-frame branch is used
WsCurId_Unknown(w) == UnknownId

WsCurId(w) == reqLog[w][Len(reqLog[w])].id

\* read.next() yields a text frame (after accept_async for a new connection)
WsRead(w, frame) ==
  /\ pc[w] \in {"new", "reading"}
  /\ Submitted < MaxInputs
  /\ reqLog' = [reqLog EXCEPT ![w] = Append(@, frame)]
  /\ LET k == Len(reqLog[w]) + 1
     IN  IF ~frame.json
         THEN /\ WsWrite(w, WsEvent(k, UnknownId, "error", Some("Invalid request")), "reading")
              /\ UNCHANGED <<chan, enqLog, everBlocked, slot, pendingMsg>>
         ELSE /\ Stage(w, [id |-> <<w, k>>, input |-> FormatInput(frame.req)])
              /\ UNCHANGED resp
  /\ UNCHANGED <<ownerPc, cur, orch, shutdown, wsLeft, wtSent,
                 executing, recvLog, done>>
  /\ UNCHANGED nonDaemonVars

\* orchestrator_tx.send(msg).await returns
WsSend(w) ==
  /\ pc[w] = "sending"
  /\ IF RxClosed
     THEN /\ WsWrite(w, WsEvent(Len(reqLog[w]), WsCurId(w), "error", Some(SendFailedText)), "reading")
          /\ pendingMsg' = [pendingMsg EXCEPT ![w] = NoMsg]
          /\ UNCHANGED <<chan, enqLog, everBlocked, slot>>
     ELSE /\ HasRoom(chan)
          /\ Enqueue(w, pendingMsg[w])
          /\ UNCHANGED resp
  /\ UNCHANGED <<ownerPc, cur, orch, shutdown, reqLog, wsLeft, wtSent, executing, recvLog, done>>
  /\ UNCHANGED nonDaemonVars

\* response_rx.await resolves: the chunks are cut, or the error event is written
WsReply(w) ==
  /\ pc[w] = "awaiting"
  /\ slot[w].st \in {"sent", "txdropped"}
  /\ slot' = [slot EXCEPT ![w] = EmptySlot]
  /\ IF slot[w].st = "sent" /\ slot[w].val[1].ok
     THEN /\ wsLeft' = [wsLeft EXCEPT ![w] = Chunks(slot[w].val[1].len)]
          /\ pc' = [pc EXCEPT ![w] = "streaming"]
          /\ UNCHANGED resp
     ELSE /\ WsWrite(w, WsEvent(Len(reqLog[w]), WsCurId(w), "error",
                                Some(DaemonResponseOf(slot[w]).error)), "reading")
          /\ UNCHANGED wsLeft
  /\ UNCHANGED <<ownerPc, cur, chan, orch, shutdown, pendingMsg, reqLog,
                 wtSent, executing, enqLog, everBlocked, recvLog, done>>
  /\ UNCHANGED nonDaemonVars

\* one pass of `for chunk in chunks`
WsSendChunk(w) ==
  /\ pc[w] = "streaming"
  /\ wsLeft[w] # <<>>
  /\ WsWrite(w, WsEvent(Len(reqLog[w]), WsCurId(w), "chunk", Some(Head(wsLeft[w]))), "streaming")
  /\ wsLeft' = [wsLeft EXCEPT ![w] = IF pc'[w] = "streaming" THEN Tail(@) ELSE <<>>]
  /\ UNCHANGED <<ownerPc, cur, chan, orch, shutdown, pendingMsg, slot, reqLog,
                 wtSent, executing, enqLog, everBlocked, recvLog, done>>
  /\ UNCHANGED nonDaemonVars

\* the final `complete` after the loop
WsSendComplete(w) ==
  /\ pc[w] = "streaming"
  /\ wsLeft[w] = <<>>
  /\ WsWrite(w, WsEvent(Len(reqLog[w]), WsCurId(w), "complete", Absent), "reading")
  /\ UNCHANGED <<ownerPc, cur, chan, orch, shutdown, pendingMsg, slot, reqLog,
                 wsLeft, wtSent, executing, enqLog, everBlocked, recvLog, done>>
  /\ UNCHANGED nonDaemonVars

\* ------------------------------------------------------------ watcher
ProjectRoot == "/proj"

\* the debounce timer fires with a non-empty pending set: process_changes
WatcherDispatch ==
  /\ pc[Watcher] = "idle"
  /\ Submitted < MaxInputs
  /\ wtSent' = wtSent + 1
  /\ Stage(Watcher, [id |-> <<Watcher, wtSent + 1>>, input |-> WatcherInput(ProjectRoot)])
  /\ UNCHANGED <<ownerPc, cur, orch, shutdown, reqLog, resp, wsLeft,
                 executing, recvLog, done>>
  /\ UNCHANGED nonDaemonVars

\* orchestrator_tx.send(msg).await returns; an error is logged and dropped
WatcherSend ==
  /\ pc[Watcher] = "sending"
  /\ IF RxClosed
     THEN /\ pc' = [pc EXCEPT ![Watcher] = "idle"]
          /\ pendingMsg' = [pendingMsg EXCEPT ![Watcher] = NoMsg]
          /\ UNCHANGED <<chan, enqLog, everBlocked, slot>>
     ELSE /\ HasRoom(chan)
          /\ Enqueue(Watcher, pendingMsg[Watcher])
  /\ UNCHANGED <<ownerPc, cur, orch, shutdown, reqLog, resp, wsLeft, wtSent,
                 executing, recvLog, done>>
  /\ UNCHANGED nonDaemonVars

\* the reply is logged, process_changes returns and pending_paths is cleared
WatcherReply ==
  /\ pc[Watcher] = "awaiting"
  /\ slot[Watcher].st \in {"sent", "txdropped"}
  /\ slot' = [slot EXCEPT ![Watcher] = EmptySlot]
  /\ pc' = [pc EXCEPT ![Watcher] = "idle"]
  /\ UNCHANGED <<ownerPc, cur, chan, orch, shutdown, pendingMsg, reqLog, resp,
                 wsLeft, wtSent, executing, enqLog, everBlocked, recvLog, done>>
  /\ UNCHANGED nonDaemonVars

\* ------------------------------------------------------ specification
Next ==
  \/ OwnerStart
  \/ OwnerRecv
  \/ OwnerFinish
  \/ OwnerStop
  \/ RuntimeShutdown
  \/ \E c \in Conns : \E line \in Lines : ConnRead(c, line)
  \/ \E c \in Conns : ConnSend(c)
  \/ \E c \in Conns : ConnReply(c)
  \/ \E w \in WsConns : \E frame \in WsFrames(Len(reqLog[w]) + 1) : WsRead(w, frame)
  \/ \E w \in WsConns : WsSend(w)
  \/ \E w \in WsConns : WsReply(w)
  \/ \E w \in WsConns : WsSendChunk(w)
  \/ \E w \in WsConns : WsSendComplete(w)
  \/ WatcherDispatch
  \/ WatcherSend
  \/ WatcherReply

Spec == Init /\ [][Next]_vars


\* The daemon started without --websocket and without --watch, under load
NextLoaded ==
  \/ OwnerStart
  \/ OwnerRecv
  \/ OwnerFinish
  \/ OwnerStop
  \/ RuntimeShutdown
  \/ \E c \in Conns : \E line \in Lines : ConnRead(c, line)
  \/ \E c \in Conns : ConnSend(c)
  \/ \E c \in Conns : ConnReply(c)

SpecLoaded == InitLoaded /\ [][NextLoaded]_vars

\* The daemon started without --websocket and without --watch and with an
\* empty channel; Orchestrator::new and every command return, the owner
\* thread and the connection tasks are scheduled whenever they can take a step
SpecFair ==
  /\ Init
  /\ [][NextLoaded]_vars
  /\ WF_vars(OwnerStart)
  /\ WF_vars(OwnerRecv)
  /\ WF_vars(OwnerFinish)
  /\ \A c \in Conns : WF_vars(ConnSend(c)) /\ WF_vars(ConnReply(c))

\* ------------------------------------------------- watcher: coalescer
\* A path is its directories and its file name; a file name is a sequence of
\* tokens in which "." is the dot
skip_dirs ==
  { "node_modules", "target", "build", "dist", ".git", "__pycache__", "venv", ".venv" }

code_extensions ==
  { "rs", "py", "js", "ts", "jsx", "tsx", "java", "kt", "go", "c", "cpp", "h", "hpp",
    "rb", "php", "swift", "scala", "cs", "fs", "clj", "ex", "exs", "erl", "hs",
    "ml", "lua", "r", "jl", "dart", "vue", "svelte", "html", "css", "scss", "sql",
    "sh", "bash", "zsh", "yaml", "yml", "toml", "json", "xml", "md", "txt" }

\* Path::extension: the part after the last dot of a name that has one after
\* its first character
Extension(name) ==
  IF Len(name) >= 3 /\ name[Len(name) - 1] = "." THEN Some(name[Len(name)]) ELSE Absent

to_lowercase(t) == CASE t = "RS" -> "rs" [] OTHER -> t

should_index(path) ==
  IF path.name[1] = "." THEN FALSE
  ELSE IF \E i \in DOMAIN path.dirs : path.dirs[i] \in skip_dirs THEN FALSE
  ELSE /\ Extension(path.name) # Absent
       /\ to_lowercase(Extension(path.name)[1]) \in code_extensions

\* Files under the watched directory on which notify reports events
EventPaths ==
  { [dirs |-> <<"proj", "src">>, name |-> <<"a", ".", "RS">>],
    [dirs |-> <<"proj">>, name |-> <<"b", ".", "py">>],
    [dirs |-> <<"proj", "target">>, name |-> <<"c", ".", "rs">>],
    [dirs |-> <<"proj">>, name |-> <<".", "env">>],
    [dirs |-> <<"proj", "web">>, name |-> <<"d", ".", "js">>] }

EventKinds == { "create", "modify", "remove", "access" }

\* the kinds the notify callback forwards to the coalescer
Forwarded(kind) == kind \in { "create", "modify", "remove" }

\* Directories that hold Cargo.toml, package.json, .git or pyproject.toml
MarkerDirs == { <<"proj">>, <<"proj", "web">> }

\* the parent walk of process_changes, from the directory of the first path
RECURSIVE FindRoot(_)
FindRoot(parent) ==
  IF parent \in MarkerDirs \/ parent = <<>> THEN parent
  ELSE FindRoot(SubSeq(parent, 1, Len(parent) - 1))

\* root.display()
PathText(dirs) ==
  CASE dirs = <<"proj">> -> ProjectRoot
    [] dirs = <<"proj", "web">> -> "/proj/web"
    [] dirs = <<>> -> "/"
    [] OTHER -> "/proj/.."

\* Time steps between two steps of the system, in ms
Gaps == { 100, 400, DEBOUNCE_DELAY }

LastBurst == IF evLog = <<>> THEN 0 ELSE evLog[Len(evLog)].last

\* notify calls the callback with an event on one path
NotifyEvent(kind, path) ==
  /\ Len(evLog) < MaxEvents
  /\ LET admitted == Forwarded(kind) /\ should_index(path)
         burst == IF ~admitted THEN 0
                  ELSE IF quiet >= DEBOUNCE_DELAY THEN LastBurst + 1 ELSE LastBurst
     IN  /\ evLog' = Append(evLog, [burst |-> burst, cover |-> 0,
                                    last |-> IF admitted THEN burst ELSE LastBurst,
                                    during |-> IF wtTask = "processing"
                                               THEN Len(wtOut) ELSE 0])
         /\ quiet' = IF admitted THEN 0 ELSE quiet
  /\ rx' = IF Forwarded(kind)
           THEN Append(rx, [n |-> Len(evLog) + 1, paths |-> {path}])
           ELSE rx
  /\ UNCHANGED <<pending_paths, sinceLast, sleepLeft, wtTask, wtOut>>
  /\ UNCHANGED nonWatcherVars

\* Variant: only an event with an admitted path sets last_event
Received_Admitted(paths, elapsed) ==
  IF \E p \in paths : should_index(p) THEN 0 ELSE elapsed

\* last_event = Instant::now(), after the paths of the event were looked at:
\* last_event.elapsed() starts again from 0
Received(paths, elapsed) == 0

\* select!: rx.recv() yields an event; the loop starts over with a new sleep
RecvEvent ==
  /\ wtTask = "select"
  /\ rx # <<>>
  /\ pending_paths' = pending_paths \cup {p \in Head(rx).paths : should_index(p)}
  /\ sinceLast' = Received(Head(rx).paths, sinceLast)
  /\ sleepLeft' = DEBOUNCE_DELAY
  /\ rx' = Tail(rx)
  /\ UNCHANGED <<wtTask, wtOut, evLog, quiet>>
  /\ UNCHANGED nonWatcherVars

\* Variant: the sleep branch never processes
Due_Never == FALSE

\* !pending_paths.is_empty() && last_event.elapsed() >= DEBOUNCE_DELAY
Due == pending_paths # {} /\ sinceLast >= DEBOUNCE_DELAY

\* numbers of the events still waiting in rx
Queued == { rx[i].n : i \in DOMAIN rx }

\* select!: the sleep completes; process_changes sends `/index <root>` for the
\* root of any one pending path, or the loop starts over
SleepElapsed ==
  /\ wtTask = "select"
  /\ sleepLeft = 0
  /\ IF Due
     THEN /\ \E first \in pending_paths :
               wtOut' = Append(wtOut, WatcherInput(PathText(FindRoot(first.dirs))))
          /\ wtTask' = "processing"
          /\ evLog' = [n \in DOMAIN evLog |->
                         IF evLog[n].burst # 0 /\ evLog[n].cover = 0 /\ n \notin Queued
                         THEN [evLog[n] EXCEPT !.cover = Len(wtOut) + 1]
                         ELSE evLog[n]]
          /\ UNCHANGED sleepLeft
     ELSE /\ sleepLeft' = DEBOUNCE_DELAY
          /\ UNCHANGED <<wtTask, wtOut, evLog>>
  /\ UNCHANGED <<rx, pending_paths, sinceLast, quiet>>
  /\ UNCHANGED nonWatcherVars

\* Variant: the pending set is kept after the dispatch
AfterProcess_Keep(paths) == paths

\* pending_paths.clear()
AfterProcess(paths) == {}

\* process_changes returns (reply logged, or the send failed); next iteration
ProcessDone ==
  /\ wtTask = "processing"
  /\ pending_paths' = AfterProcess(pending_paths)
  /\ wtTask' = "select"
  /\ sleepLeft' = DEBOUNCE_DELAY
  /\ UNCHANGED <<rx, sinceLast, wtOut, evLog, quiet>>
  /\ UNCHANGED nonWatcherVars

\* d ms pass; the task in select! takes a waiting event, and the sleep its
\* completion, at the instant they occur
TimePasses(d) ==
  /\ wtTask = "processing" \/ (rx = <<>> /\ d <= sleepLeft)
  /\ sinceLast' = Min(sinceLast + d, DEBOUNCE_DELAY)
  /\ quiet' = Min(quiet + d, DEBOUNCE_DELAY)
  /\ sleepLeft' = IF wtTask = "select" THEN sleepLeft - d ELSE sleepLeft
  /\ sinceLast' # sinceLast \/ quiet' # quiet \/ sleepLeft' # sleepLeft
  /\ UNCHANGED <<rx, pending_paths, wtTask, wtOut, evLog>>
  /\ UNCHANGED nonWatcherVars

NextWatcher ==
  \/ \E kind \in EventKinds : \E path \in EventPaths : NotifyEvent(kind, path)
  \/ RecvEvent
  \/ SleepElapsed
  \/ ProcessDone
  \/ \E d \in Gaps : TimePasses(d)

InitWatcher ==
  /\ DaemonStart
  /\ WatcherStart
  /\ CrdtStart
  /\ SyncStart
  /\ IndexStart
  /\ StoreStart
  /\ RagIdle /\ ChunkIdle /\ StreamIdle /\ PeerStart

SpecWatcher == InitWatcher /\ [][NextWatcher]_vars

\* The task is scheduled whenever a branch of its select! is ready, the
\* orchestrator replies to every message (or its channel is closed), and time
\* goes on
SpecWatcherFair ==
  /\ SpecWatcher
  /\ WF_vars(RecvEvent)
  /\ WF_vars(SleepElapsed)
  /\ WF_vars(ProcessDone)
  /\ WF_vars(\E d \in Gaps : TimePasses(d))

\* -------------------------------------------------- CRDT memory store
\* A document is the set of the operations applied to it.  An operation has
\* the id <<counter, actor>> that Automerge gives it; add() is one operation
\* that inserts the memory map with its fields at the end of the list.
CrdtMemoryTypes == { "Conversation", "CodePattern", "Decision", "Preference", "Fact" }

as_str(t) ==
  CASE t = "Conversation" -> "conversation"
    [] t = "CodePattern" -> "code_pattern"
    [] t = "Decision" -> "decision"
    [] t = "Preference" -> "preference"
    [] t = "Fact" -> "fact"

from_str(t) ==
  CASE t = "conversation" -> "Conversation"
    [] t = "code_pattern" -> "CodePattern"
    [] t = "decision" -> "Decision"
    [] t = "preference" -> "Preference"
    [] OTHER -> "Fact"

\* arguments of add(), update_importance() (in tenths) and add_tag()
MemInputs(r) ==
  IF r = ReplicaOrder[1]
  THEN { [content |-> "always use tabs", type |-> "Preference"] }
  ELSE { [content |-> "prefers spaces", type |-> "Fact"] }
ImportanceInputs == { 2, 12 }
TagInputs == { "style", "editor" }

NoObj == <<0, "">>
NoMem == <<"", 0>>

\* last is the counter of the last put made together with the operation
Op(id, last, kind, obj, mem, content, type, val, tag) ==
  [id |-> id, last |-> last, kind |-> kind, obj |-> obj, mem |-> mem,
   content |-> content, type |-> type, val |-> val, tag |-> tag]

\* order of operation ids: by counter, then by actor
ActorRank(a) == CHOOSE i \in 1..Len(ReplicaOrder) : ReplicaOrder[i] = a
OpLess(x, y) == x[1] < y[1] \/ (x[1] = y[1] /\ ActorRank(x[2]) < ActorRank(y[2]))
MaxOp(S) == CHOOSE x \in S : \A y \in S : y = x \/ OpLess(y, x)
MinOp(S) == CHOOSE x \in S : \A y \in S : y = x \/ OpLess(x, y)

\* the counter of the next operation made on document d
NextCtr(d) == 1 + MaxOp({ <<op.last, op.id[2]>> : op \in d })[1]

\* doc.save(): the operations in the order of their ids
RECURSIVE SaveOps(_)
SaveOps(S) ==
  IF S = {} THEN <<>>
  ELSE LET first == CHOOSE op \in S : op.id = MinOp({ o.id : o \in S })
       IN  <<first>> \o SaveOps(S \ {first})

export(d) == SaveOps(d)

\* AutoCommit::load
load(bytes) == { bytes[i] : i \in DOMAIN bytes }

IsRootOp(op) == op.kind \in {"makeList", "makeMap"}

\* Variant: operations that both documents hold are dropped
MergeDoc_SymDiff(d, bytes) ==
  { op \in d \cup load(bytes) : IsRootOp(op) \/ op \notin d \/ op \notin load(bytes) }

\* Variant: a delete of an entry this document does not hold is not taken
MergeDoc_SkipUnknownDeletes(d, bytes) ==
  d \cup { op \in load(bytes) :
             op.kind = "delMem" => \E mine \in d : mine.id = op.obj }

\* Variant: an importance the other document wrote is not taken for an entry
\* whose importance this document wrote
MergeDoc_LocalWins(d, bytes) ==
  d \cup { op \in load(bytes) :
             op.kind = "putImp" => ~\E mine \in d : mine.kind = "putImp" /\ mine.obj = op.obj }

\* doc.merge: the operations of both documents
MergeDoc(d, bytes) == d \cup load(bytes)

\* doc.get(ROOT, "memories"): of the lists put under the key, the one with
\* the greatest operation id
MemoriesList(d) == MaxOp({ op.id : op \in { o \in d : o.kind = "makeList" } })

\* Variant: a delete is dropped when some operation of the entry came later
IsDeleted_AddWins(d, e) ==
  \E op \in d :
    /\ op.kind = "delMem" /\ op.obj = e
    /\ ~\E later \in d : later.obj = e /\ later.kind # "delMem" /\ OpLess(op.id, later.id)

\* doc.delete(list, i): the element is gone once one delete names it
IsDeleted(d, e) == \E op \in d : op.kind = "delMem" /\ op.obj = e

IsVisible(d, op) ==
  op.kind = "insMem" /\ op.obj = MemoriesList(d) /\ ~IsDeleted(d, op.id)

\* doc.get(mem, "importance"): of the values put, the one with the greatest id
ImportanceOf(d, e) ==
  LET puts == { op \in d : op.kind = "putImp" /\ op.obj = e.id }
  IN  IF puts = {} THEN e.val
      ELSE (CHOOSE p \in puts : p.id = MaxOp({ q.id : q \in puts })).val

TagsOf(d, e) == { <<op.id, op.tag>> : op \in { o \in d : o.kind = "insTag" /\ o.obj = e.id } }

read_memory(d, e) ==
  [id |-> e.mem, content |-> e.content, memory_type |-> from_str(e.type),
   importance |-> ImportanceOf(d, e), tags |-> TagsOf(d, e)]

get_all(d) == { read_memory(d, e) : e \in { op \in d : IsVisible(d, op) } }

\* doc.length(memories)
count(d) == Cardinality({ op \in d : IsVisible(d, op) })

MemoryIds(d) == { m.id : m \in get_all(d) }

\* the element update_importance, add_tag and delete find for an id
FindById(d, id) == CHOOSE op \in d : IsVisible(d, op) /\ op.mem = id

AllOps == UNION { doc[r] : r \in Replicas }
OpsDone == Cardinality({ op \in AllOps : ~IsRootOp(op) })

Opened(r) == doc[r] # {}

\* replicas are opened in the order of ReplicaOrder
NextToOpen(r) ==
  /\ ~Opened(r)
  /\ \A i \in 1..Len(ReplicaOrder) :
       ReplicaOrder[i] = r => \A j \in 1..(i - 1) : Opened(ReplicaOrder[j])

\* CrdtMemoryStore::new on a directory without memories.automerge
OpenNew(r) ==
  /\ NextToOpen(r)
  /\ doc' = [doc EXCEPT ![r] =
       { Op(<<1, r>>, 1, "makeList", NoObj, NoMem, "", "", 0, ""),
         Op(<<2, r>>, 2, "makeMap", NoObj, NoMem, "", "", 0, "") }]
  /\ since' = [since EXCEPT ![r] = NoPeer]
  /\ UNCHANGED exported
  /\ UNCHANGED nonCrdtVars

\* CrdtMemoryStore::new on a directory holding the document s saved
OpenCopy(r, s) ==
  /\ NextToOpen(r)
  /\ Opened(s)
  /\ doc' = [doc EXCEPT ![r] = load(export(doc[s]))]
  /\ since' = [since EXCEPT
       ![r] = [from |-> s, base |-> MemoryIds(doc[s]), added |-> {}, deleted |-> {}],
       ![s] = [from |-> r, base |-> MemoryIds(doc[s]), added |-> {}, deleted |-> {}]]
  /\ UNCHANGED exported
  /\ UNCHANGED nonCrdtVars

\* add(content, memory_type)
Add(r, in) ==
  /\ Opened(r)
  /\ OpsDone < MaxOps
  /\ LET n == NextCtr(doc[r])
         id == <<r, n>>
     IN  /\ doc' = [doc EXCEPT ![r] =
               @ \cup { Op(<<n, r>>, n + 6, "insMem", MemoriesList(doc[r]), id,
                           in.content, as_str(in.type), 5, "") }]
         /\ since' = [since EXCEPT ![r].added = @ \cup {id}]
  /\ UNCHANGED exported
  /\ UNCHANGED nonCrdtVars

\* update_importance(id, importance) for an id the store holds
UpdateImportance(r, id, v) ==
  /\ Opened(r)
  /\ OpsDone < MaxOps
  /\ id \in MemoryIds(doc[r])
  /\ LET n == NextCtr(doc[r])
     IN  doc' = [doc EXCEPT ![r] =
            @ \cup { Op(<<n, r>>, n, "putImp", FindById(doc[r], id).id, id, "", "", v, "") }]
  /\ UNCHANGED << since, exported >>
  /\ UNCHANGED nonCrdtVars

\* add_tag(id, tag) for an id the store holds
AddTag(r, id, tag) ==
  /\ Opened(r)
  /\ OpsDone < MaxOps
  /\ id \in MemoryIds(doc[r])
  /\ LET n == NextCtr(doc[r])
     IN  doc' = [doc EXCEPT ![r] =
            @ \cup { Op(<<n, r>>, n, "insTag", FindById(doc[r], id).id, id, "", "", 0, tag) }]
  /\ UNCHANGED << since, exported >>
  /\ UNCHANGED nonCrdtVars

\* delete(id) for an id the store holds
Delete(r, id) ==
  /\ Opened(r)
  /\ OpsDone < MaxOps
  /\ id \in MemoryIds(doc[r])
  /\ LET n == NextCtr(doc[r])
     IN  doc' = [doc EXCEPT ![r] =
            @ \cup { Op(<<n, r>>, n, "delMem", FindById(doc[r], id).id, id, "", "", 0, "") }]
  /\ since' = [since EXCEPT ![r].deleted = @ \cup {id}]
  /\ UNCHANGED exported
  /\ UNCHANGED nonCrdtVars

\* export(): the bytes a sync sends, which may be merged later
Export(r) ==
  /\ Opened(r)
  /\ exported' = export(doc[r])
  /\ UNCHANGED << doc, since >>
  /\ UNCHANGED nonCrdtVars

\* merge(other_bytes) with bytes some replica exported
Merge(r) ==
  /\ Opened(r)
  /\ exported # <<>>
  /\ doc' = [doc EXCEPT ![r] = MergeDoc(doc[r], exported)]
  /\ UNCHANGED << since, exported >>
  /\ UNCHANGED nonCrdtVars

NextCrdt ==
  \/ \E r \in Replicas : OpenNew(r)
  \/ \E r, s \in Replicas : OpenCopy(r, s)
  \/ \E r \in Replicas : \E in \in MemInputs(r) : Add(r, in)
  \/ \E r \in Replicas : \E id \in MemoryIds(doc[r]), v \in ImportanceInputs :
       UpdateImportance(r, id, v)
  \/ \E r \in Replicas : \E id \in MemoryIds(doc[r]), tag \in TagInputs : AddTag(r, id, tag)
  \/ \E r \in Replicas : \E id \in MemoryIds(doc[r]) : Delete(r, id)
  \/ \E r \in Replicas : Export(r)
  \/ \E r \in Replicas : Merge(r)

InitCrdt == DaemonStart /\ WatcherStart /\ CrdtStart /\ SyncStart /\ IndexStart /\ StoreStart /\ RagIdle /\ ChunkIdle /\ StreamIdle /\ PeerStart

SpecCrdt == InitCrdt /\ [][NextCrdt]_vars

\* ---------------------------------------------------------------------------
\* One CrdtMemoryStore, the calls made on it and the file it saves to
\* ---------------------------------------------------------------------------

\* the actor of the store and the actor of a peer's store
LocalActor == ReplicaOrder[1]
PeerActor == ReplicaOrder[2]

\* an operation with the "timestamp" and "project" put with it, and the
\* changes its change names as its dependencies: the heads at the time
StoreOp(op, ts, project, deps) ==
  [id |-> op.id, last |-> op.last, kind |-> op.kind, obj |-> op.obj, mem |-> op.mem,
   content |-> op.content, type |-> op.type, val |-> op.val, tag |-> op.tag,
   timestamp |-> ts, project |-> project, deps |-> deps]

\* doc.get_heads(): the changes no other change of the document depends on
Heads(d) == { op.id : op \in { o \in d : ~\E later \in d : o.id \in later.deps } }

\* AutoCommit::new, put_object(ROOT, "memories"), put_object(ROOT, "metadata")
NewDoc(actor) ==
  { StoreOp(Op(<<1, actor>>, 1, "makeList", NoObj, NoMem, "", "", 0, ""), 0, "", {}),
    StoreOp(Op(<<2, actor>>, 2, "makeMap", NoObj, NoMem, "", "", 0, ""), 0, "",
            { <<1, actor>> }) }

\* bytes AutoCommit::load rejects
Corrupt == << StoreOp(Op(<<0, "">>, 0, "corrupt", NoObj, NoMem, "", "", 0, ""), 0, "", {}) >>
Loadable(bytes) == \A i \in DOMAIN bytes : bytes[i].kind # "corrupt"

\* CrdtMemoryStore::new: the document of the file, or a new one without a file
new_store(bytes) == IF bytes = <<>> THEN NewDoc(LocalActor) ELSE load(bytes)

\* Variant: only the last operation is written
save_LastChange(d) == SaveOps({ op \in d : op.id = MaxOp({ o.id : o \in d }) })

\* save: the bytes of doc.save(), written over the file
save(d) == SaveOps(d)

\* arguments of add() and add_with_project() (project "": add)
StoreInputs ==
  { [content |-> "always use tabs", type |-> "Preference", project |-> ""],
    [content |-> "uses tokio", type |-> "Decision", project |-> "sovereign"] }

\* an id that was never given out
MissingId == << "unknown", 0 >>

\* what a peer sends: the export of a store made on its own, the export of a
\* store that started from a copy of this store's first document, the changes
\* of the latter since that copy, and bytes that are no document
PeerMemory(list, ts) ==
  StoreOp(Op(<<3, PeerActor>>, 9, "insMem", list, <<PeerActor, 3>>,
             "prefers spaces", "fact", 5, ""), ts, "", { <<2, list[2]>> })
PeerOwn == save(NewDoc(PeerActor) \cup { PeerMemory(<<1, PeerActor>>, 3) })
PeerCopy == save(NewDoc(LocalActor) \cup { PeerMemory(<<1, LocalActor>>, 3) })
PeerDelta == save({ PeerMemory(<<1, LocalActor>>, 3) })
MergeInputs == { PeerOwn, PeerCopy, Corrupt }
SyncInputs == { PeerDelta, Corrupt }

\* Utc::now() is later than every timestamp of a document that was received
LatestStamp(bytes) ==
  CHOOSE t \in { bytes[i].timestamp : i \in DOMAIN bytes } :
    \A i \in DOMAIN bytes : bytes[i].timestamp <= t
After(bytes) == IF utc_now > LatestStamp(bytes) THEN utc_now ELSE LatestStamp(bytes) + 1

\* Variant: the id of the element is not compared
Lookup_NoIdCheck(d, id) == { op \in d : IsVisible(d, op) }

\* the elements of the memories list whose "id" is id
Lookup(d, id) == { op \in d : IsVisible(d, op) /\ op.mem = id }

\* the first of them, in the order of the list
FirstOf(S) == CHOOSE op \in S : op.id = MinOp({ o.id : o \in S })

\* Variant: sorted with the oldest first
get_recent_OldestFirst(d, limit) ==
  LET entries == { op \in d : IsVisible(d, op) }
  IN  { read_memory(d, e) :
          e \in { op \in entries :
                    Cardinality({ o \in entries : o.timestamp < op.timestamp }) < limit } }

\* get_recent(limit): sorted by timestamp, latest first, and truncated
get_recent(d, limit) ==
  LET entries == { op \in d : IsVisible(d, op) }
  IN  { read_memory(d, e) :
          e \in { op \in entries :
                    Cardinality({ o \in entries : o.timestamp > op.timestamp }) < limit } }

LocalOps(d) == Cardinality({ op \in d : ~IsRootOp(op) /\ op.id[2] = LocalActor })

Called(name, args, id) ==
  [name |-> name, args |-> args, ok |-> TRUE, id |-> id, err |-> "",
   some |-> FALSE, data |-> <<>>, peer |-> <<>>]
Failed(name, args, err) ==
  [name |-> name, args |-> args, ok |-> FALSE, id |-> NoMem, err |-> err,
   some |-> FALSE, data |-> <<>>, peer |-> <<>>]

\* the document was changed: save(), then Ok
Saved(d, call) ==
  /\ store' = d
  /\ memories_file' = save(d)
  /\ last_call' = call

\* the call returns an error before anything was changed
Refused(call) ==
  /\ last_call' = call
  /\ UNCHANGED << store, memories_file >>

\* CrdtMemoryStore::new(data_dir), also after a restart
StoreNew ==
  /\ store' = new_store(memories_file)
  /\ last_call' = Called("new", NoArgs, NoMem)
  /\ UNCHANGED << memories_file, utc_now >>
  /\ UNCHANGED nonStoreVars

\* add(content, memory_type) and add_with_project(content, memory_type, project)
StoreAdd(in) ==
  /\ store # {}
  /\ LocalOps(store) < MaxOps
  /\ LET n == NextCtr(store)
         id == <<LocalActor, n>>
         name == IF in.project = "" THEN "add" ELSE "add_with_project"
         last == IF in.project = "" THEN n + 6 ELSE n + 7
         args == [NoArgs EXCEPT !.content = in.content, !.type = in.type,
                                !.project = in.project]
     IN  Saved(store \cup { StoreOp(Op(<<n, LocalActor>>, last, "insMem",
                                       MemoriesList(store), id, in.content,
                                       as_str(in.type), 5, ""),
                                    utc_now, in.project, Heads(store)) },
               Called(name, args, id))
  /\ utc_now' = utc_now + 2
  /\ UNCHANGED nonStoreVars

\* update_importance(id, importance)
StoreUpdateImportance(id, v) ==
  /\ store # {}
  /\ LocalOps(store) < MaxOps
  /\ LET n == NextCtr(store)
         args == [NoArgs EXCEPT !.id = id, !.importance = v]
     IN  IF Lookup(store, id) # {}
         THEN Saved(store \cup { StoreOp(Op(<<n, LocalActor>>, n, "putImp",
                                            FirstOf(Lookup(store, id)).id, id, "", "", v, ""),
                                         0, "", Heads(store)) },
                    Called("update_importance", args, NoMem))
         ELSE Refused(Failed("update_importance", args, "Memory not found"))
  /\ UNCHANGED utc_now
  /\ UNCHANGED nonStoreVars

\* add_tag(id, tag)
StoreAddTag(id, tag) ==
  /\ store # {}
  /\ LocalOps(store) < MaxOps
  /\ LET n == NextCtr(store)
         args == [NoArgs EXCEPT !.id = id, !.tag = tag]
     IN  IF Lookup(store, id) # {}
         THEN Saved(store \cup { StoreOp(Op(<<n, LocalActor>>, n, "insTag",
                                            FirstOf(Lookup(store, id)).id, id, "", "", 0, tag),
                                         0, "", Heads(store)) },
                    Called("add_tag", args, NoMem))
         ELSE Refused(Failed("add_tag", args, "Memory not found"))
  /\ UNCHANGED utc_now
  /\ UNCHANGED nonStoreVars

\* delete(id)
StoreDelete(id) ==
  /\ store # {}
  /\ LocalOps(store) < MaxOps
  /\ LET n == NextCtr(store)
         args == [NoArgs EXCEPT !.id = id]
     IN  IF Lookup(store, id) # {}
         THEN Saved(store \cup { StoreOp(Op(<<n, LocalActor>>, n, "delMem",
                                            FirstOf(Lookup(store, id)).id, id, "", "", 0, ""),
                                         0, "", Heads(store)) },
                    Called("delete", args, NoMem))
         ELSE Refused(Failed("delete", args, "Memory not found"))
  /\ UNCHANGED utc_now
  /\ UNCHANGED nonStoreVars

\* merge(other_bytes)
StoreMerge(bytes) ==
  /\ store # {}
  /\ LET args == [NoArgs EXCEPT !.bytes = bytes]
     IN  IF Loadable(bytes)
         THEN /\ Saved(MergeDoc(store, bytes), Called("merge", args, NoMem))
              /\ utc_now' = After(bytes)
         ELSE /\ Refused(Failed("merge", args, "load"))
              /\ UNCHANGED utc_now
  /\ UNCHANGED nonStoreVars

\* doc.load_incremental: the changes are added to the document
load_incremental(d, bytes) == d \cup load(bytes)

\* apply_sync_changes(changes)
StoreApplySync(bytes) ==
  /\ store # {}
  /\ LET args == [NoArgs EXCEPT !.bytes = bytes]
     IN  IF Loadable(bytes)
         THEN /\ Saved(load_incremental(store, bytes),
                       Called("apply_sync_changes", args, NoMem))
              /\ utc_now' = After(bytes)
         ELSE /\ Refused(Failed("apply_sync_changes", args, "load"))
              /\ UNCHANGED utc_now
  /\ UNCHANGED nonStoreVars

NextStore ==
  \/ StoreNew
  \/ \E in \in StoreInputs : StoreAdd(in)
  \/ \E id \in MemoryIds(store) \cup {MissingId} : StoreUpdateImportance(id, 2)
  \/ \E id \in MemoryIds(store) \cup {MissingId} : StoreAddTag(id, "style")
  \/ \E id \in MemoryIds(store) \cup {MissingId} : StoreDelete(id)
  \/ \E bytes \in MergeInputs : StoreMerge(bytes)
  \/ \E bytes \in SyncInputs : StoreApplySync(bytes)

InitStore == DaemonStart /\ WatcherStart /\ CrdtStart /\ SyncStart /\ IndexStart /\ StoreStart /\ RagIdle /\ ChunkIdle /\ StreamIdle /\ PeerStart

SpecStore == InitStore /\ [][NextStore]_vars

\* ---------------------------------------------------------------------------
\* Incremental sync: generate_sync_message for the heads of a peer
\* ---------------------------------------------------------------------------

\* the changes of d that are hs or that those depend on; a hash that d does
\* not hold names nothing
RECURSIVE Ancestors(_, _)
Ancestors(d, hs) ==
  LET known == { op \in d : op.id \in hs }
      below == UNION { op.deps : op \in known }
  IN  IF known = {} THEN {} ELSE { op.id : op \in known } \cup Ancestors(d, below)

\* doc.get_changes(their_heads): the changes of d that are not among the
\* ancestors of their_heads
get_changes(d, their_heads) == { op \in d : op.id \notin Ancestors(d, their_heads) }

\* generate_sync_message(their_heads): None, or Some(doc.save_after(their_heads))
generate_sync_message(d, their_heads) ==
  IF get_changes(d, their_heads) = {}
  THEN [some |-> FALSE, data |-> <<>>]
  ELSE [some |-> TRUE, data |-> SaveOps(get_changes(d, their_heads))]

\* the documents a peer can hold when it sends its heads: the same document,
\* the document this store began with, this document and a memory of its own
\* added to it, a copy of the first document with a memory added, and a
\* document it made on its own; in one behaviour the peer is one of the two
\* peers, the one that began with a copy or the one that began on its own
AheadOf(d) ==
  d \cup { StoreOp(Op(<<NextCtr(d), PeerActor>>, NextCtr(d) + 6, "insMem", MemoriesList(d),
                      <<PeerActor, NextCtr(d)>>, "prefers spaces", "fact", 5, ""),
                   utc_now, "", Heads(d)) }
OnePeer(d, p) == \A x \in d, y \in p : x.id = y.id => x = y
PeerDocs(d) ==
  IF d = {} THEN {}
  ELSE { p \in { d, AheadOf(d), load(PeerCopy), load(PeerOwn) } : OnePeer(d, p) }
         \cup { p \in { NewDoc(LocalActor) } : p \subseteq d }

\* generate_sync_message(their_heads) for the heads of the peer document p
GenerateSync(p) ==
  /\ store # {}
  /\ LET msg == generate_sync_message(store, Heads(p))
     IN  last_call' = [Called("generate_sync_message", [NoArgs EXCEPT !.heads = Heads(p)], NoMem)
                         EXCEPT !.some = msg.some, !.data = msg.data, !.peer = save(p)]
  /\ UNCHANGED << store, memories_file, utc_now >>
  /\ UNCHANGED nonStoreVars

NextDelta ==
  \/ StoreNew
  \/ \E in \in StoreInputs : StoreAdd(in)
  \/ \E id \in MemoryIds(store) : StoreDelete(id)
  \/ \E bytes \in { PeerOwn, PeerCopy } : OnePeer(store, load(bytes)) /\ StoreMerge(bytes)
  \/ OnePeer(store, load(PeerDelta)) /\ StoreApplySync(PeerDelta)
  \/ \E p \in PeerDocs(store) : GenerateSync(p)

SpecDelta == InitStore /\ [][NextDelta]_vars

\* ---------------------------------------------------------------------------
\* Hybrid retrieval: semantic and keyword results and their merge (rag.rs)
\* ---------------------------------------------------------------------------

\* scores are counted in thousandths, combined scores in millionths
Scale == 1000
semantic_weight == 700
keyword_weight == Scale - semantic_weight

\* cosine_similarity(a, b), for vectors whose norms are whole numbers
Dot(a, b) == IF Len(a) = 2 THEN a[1] * b[1] + a[2] * b[2] ELSE a[1] * b[1]
Norm(a) == CHOOSE n \in 0..5 : n * n = Dot(a, a)
cosine_similarity(a, b) ==
  IF Len(a) # Len(b) \/ Len(a) = 0 THEN 0
  ELSE IF Norm(a) = 0 \/ Norm(b) = 0 THEN 0
  ELSE (Dot(a, b) * Scale) \div (Norm(a) * Norm(b))

\* ln_1p(n) / 10 for the occurrence counts that are drawn
OccurrenceBoost(n) ==
  CASE n = 0 -> 0
    [] n = 1 -> 69
    [] n = 2 -> 110
    [] OTHER -> 139

\* calculate_keyword_score for a query of keywords words, of which matches
\* are in the content, occurrences times in all
calculate_keyword_score(keywords, matches, occurrences) ==
  IF keywords = 0 THEN 0
  ELSE LET sum == (matches * Scale) \div keywords + OccurrenceBoost(occurrences)
       IN  IF sum < Scale THEN sum ELSE Scale

\* the files of the index, the embeddings stored for them (<<>>: none stored)
\* and what a query of two words finds in their content
RagFiles == { "src/a.rs", "src/b.py" }
Embeddings == { <<1, 0>>, <<0, 1>>, <<-1, 0>>, <<3, 4>>, <<0, 0>> }
KeywordHits == { [matches |-> 0, occurrences |-> 0], [matches |-> 1, occurrences |-> 1],
                 [matches |-> 2, occurrences |-> 3] }
QueryWords == 2

\* the key of a chunk that spans a whole file: file_path and start_line 1
KeyOf(f) == << f, 1 >>

\* a query and an index are given, no search made
RagStart ==
  /\ query_embedding \in Embeddings \ { <<0, 0>> }
  /\ stored \in [RagFiles -> [embedding : Embeddings \cup { <<>> }, hits : KeywordHits]]
  /\ semantic_results = {}
  /\ keyword_results = {}
  /\ merged = <<>>
  /\ rag_pc = "search"

\* semantic_search: the files that have an embedding, with their similarity
SemanticSearch ==
  /\ rag_pc = "search"
  /\ semantic_results' =
       { [key |-> KeyOf(f), score |-> cosine_similarity(query_embedding, stored[f].embedding)] :
           f \in { g \in RagFiles : stored[g].embedding # <<>> } }
  /\ rag_pc' = "semantic done"
  /\ UNCHANGED << query_embedding, stored, keyword_results, merged >>
  /\ UNCHANGED nonRagVars

\* keyword_search: the files whose keyword score is above 0
KeywordSearch ==
  /\ rag_pc = "semantic done"
  /\ keyword_results' =
       { r \in { [key |-> KeyOf(f),
                  score |-> calculate_keyword_score(QueryWords, stored[f].hits.matches,
                                                    stored[f].hits.occurrences)] :
                   f \in RagFiles } : r.score > 0 }
  /\ rag_pc' = "keyword done"
  /\ UNCHANGED << query_embedding, stored, semantic_results, merged >>
  /\ UNCHANGED nonRagVars

\* the pair of scores kept for a key: 0 where a list does not have it
ScoresOf(key, semantic, keyword) ==
  << IF \E r \in semantic : r.key = key
     THEN (CHOOSE r \in semantic : r.key = key).score ELSE 0,
     IF \E r \in keyword : r.key = key
     THEN (CHOOSE r \in keyword : r.key = key).score ELSE 0 >>

\* Variant: the two scores are multiplied
combined_score_Product(sem, kw) == sem * kw

combined_score(sem, kw) == semantic_weight * sem + keyword_weight * kw

match_type(sem, kw) ==
  IF sem > 0 /\ kw > 0 THEN "Hybrid" ELSE IF sem > 0 THEN "Semantic" ELSE "Keyword"

\* merge_results without the sort
Combined(semantic, keyword) ==
  { [key |-> key,
     score |-> combined_score(ScoresOf(key, semantic, keyword)[1],
                              ScoresOf(key, semantic, keyword)[2]),
     match_type |-> match_type(ScoresOf(key, semantic, keyword)[1],
                               ScoresOf(key, semantic, keyword)[2])] :
       key \in { r.key : r \in semantic \cup keyword } }

\* the orders a sort by falling score can leave (equal scores: either order)
SortedByScore(S) ==
  { seq \in [1..Cardinality(S) -> S] :
      /\ \A i, j \in 1..Cardinality(S) : i # j => seq[i] # seq[j]
      /\ \A i, j \in 1..Cardinality(S) : i < j => seq[i].score >= seq[j].score }

\* merge_results(semantic, keyword)
MergeResults ==
  /\ rag_pc = "keyword done"
  /\ merged' \in SortedByScore(Combined(semantic_results, keyword_results))
  /\ rag_pc' = "merged"
  /\ UNCHANGED << query_embedding, stored, semantic_results, keyword_results >>
  /\ UNCHANGED nonRagVars

InitRag ==
  /\ DaemonStart /\ WatcherStart /\ CrdtStart /\ SyncStart /\ IndexStart /\ StoreStart
  /\ RagStart /\ ChunkIdle /\ StreamIdle /\ PeerStart

NextRag ==
  \/ SemanticSearch
  \/ KeywordSearch
  \/ MergeResults

SpecRag == InitRag /\ [][NextRag]_vars

\* ---------------------------------------------------------- sync server
\* the 4-byte commands a peer sends
Commands == { "PUSH", "PULL", "SYNC", "PING" }

\* Stand-ins for two 8-byte length prefixes no peer sends a blob for: one
\* beyond the memory the process can obtain (2^47, say), one beyond isize::MAX
UnallocatableLen == 1073741824
OverflowLen == 2147483647
LenPrefixes == (0..MaxLen) \cup { UnallocatableLen, OverflowLen }

\* vec![0u8; len]: a capacity beyond isize::MAX panics in the task; an
\* allocation the allocator refuses aborts the process, and whether it refuses
\* a very large one depends on the machine
AllocOutcomes(len) ==
  IF len >= OverflowLen THEN { "panic" }
  ELSE IF len >= UnallocatableLen THEN { "abort", "ok" }
  ELSE { "ok" }

\* bytes of the n-th document the owner saves
DocBytes == 2
Snapshot(n) == [i \in 1..DocBytes |-> n]

\* the blob a peer sends, so far as received
Blob(len) == [i \in 1..len |-> "b"]

Ack == [kind |-> "ack", data |-> << "OK  " >>]
Frame(data) == [kind |-> "blob", data |-> data]

\* if sync_file.exists() { std::fs::read } else { vec![] }
ReadSyncFile == IF fs[sync_file].exists THEN fs[sync_file].bytes ELSE <<>>

\* save() has truncated the file of an earlier save and not yet written it all
Rewriting == saver.left # <<>> /\ saver.n >= 2

Reading(c) == conn[c].pc \in { "cmd", "len", "blob" }

\* listener.accept() and the spawn of handle_sync_connection
Accept(c) ==
  /\ serverUp
  /\ conn[c].pc = "none"
  /\ conn' = [conn EXCEPT ![c].pc = "cmd"]
  /\ UNCHANGED << fs, saver, serverUp >>
  /\ UNCHANGED nonSyncVars

\* the peer closes its side after what it has sent
PeerClose(c) ==
  /\ Reading(c) \/ conn[c].pc = "killed"
  /\ ~conn[c].eof
  /\ conn' = [conn EXCEPT ![c].eof = TRUE]
  /\ UNCHANGED << fs, saver, serverUp >>
  /\ UNCHANGED nonSyncVars

\* Variant: the blob goes to the document file itself
TempFile_InPlace(path) == path

\* sync_file.with_extension("incoming")
TempFile(path) == with_extension(path, "incoming")

\* the arm of the match taken once the whole blob of length len is read
Complete(c, k, len) ==
  IF k = "PUSH"
  THEN /\ fs' = [fs EXCEPT ![TempFile(sync_file)] = [exists |-> TRUE, bytes |-> Blob(len)]]
       /\ conn' = [conn EXCEPT ![c].pc = "done", ![c].cmd = k, ![c].len = len, ![c].got = len,
                                ![c].wrote = TRUE, ![c].sent = << Ack >>]
  ELSE /\ conn' = [conn EXCEPT ![c].pc = "done", ![c].cmd = k, ![c].len = len, ![c].got = len,
                                ![c].racing = IF Rewriting THEN saver.n ELSE 0,
                                ![c].sent = << Frame(ReadSyncFile) >>]
       /\ UNCHANGED fs

\* read_exact(&mut cmd) returns the four bytes; match &cmd
RecvCmd(c, k) ==
  /\ serverUp
  /\ conn[c].pc = "cmd" /\ ~conn[c].eof
  /\ CASE k = "PULL" -> Complete(c, k, 0)
       [] k \in { "PUSH", "SYNC" } ->
            /\ conn' = [conn EXCEPT ![c].pc = "len", ![c].cmd = k]
            /\ UNCHANGED fs
       [] OTHER ->
            /\ conn' = [conn EXCEPT ![c].pc = "err", ![c].cmd = k]
            /\ UNCHANGED fs
  /\ UNCHANGED << saver, serverUp >>
  /\ UNCHANGED nonSyncVars

\* read_exact(&mut len_bytes) returns the prefix; vec![0u8; len]
RecvLen(c, len) ==
  /\ serverUp
  /\ conn[c].pc = "len" /\ ~conn[c].eof
  /\ \E outcome \in AllocOutcomes(len) :
       CASE outcome = "panic" ->
              /\ conn' = [conn EXCEPT ![c].pc = "panic", ![c].len = len]
              /\ UNCHANGED << fs, serverUp >>
         [] outcome = "abort" ->
              /\ serverUp' = FALSE
              /\ conn' = [d \in Peers |->
                           IF d = c THEN [conn[d] EXCEPT !.pc = "killed", !.len = len]
                           ELSE IF Reading(d) THEN [conn[d] EXCEPT !.pc = "killed"]
                           ELSE conn[d]]
              /\ UNCHANGED fs
         [] OTHER ->
              /\ IF len = 0
                 THEN Complete(c, conn[c].cmd, 0)
                 ELSE /\ conn' = [conn EXCEPT ![c].pc = "blob", ![c].len = len]
                      /\ UNCHANGED fs
              /\ UNCHANGED serverUp
  /\ UNCHANGED saver
  /\ UNCHANGED nonSyncVars

\* one more byte of the blob arrives; read_exact(&mut data) returns at the last
RecvByte(c) ==
  /\ serverUp
  /\ conn[c].pc = "blob" /\ ~conn[c].eof
  /\ conn[c].got < conn[c].len /\ conn[c].got < MaxLen
  /\ IF conn[c].got + 1 = conn[c].len
     THEN Complete(c, conn[c].cmd, conn[c].len)
     ELSE /\ conn' = [conn EXCEPT ![c].got = @ + 1]
          /\ UNCHANGED fs
  /\ UNCHANGED << saver, serverUp >>
  /\ UNCHANGED nonSyncVars

\* read_exact meets the end of the stream: the handler returns the error
ReadFails(c) ==
  /\ serverUp
  /\ Reading(c) /\ conn[c].eof
  /\ conn' = [conn EXCEPT ![c].pc = "err"]
  /\ UNCHANGED << fs, saver, serverUp >>
  /\ UNCHANGED nonSyncVars

\* save(): std::fs::write creates or truncates the file ...
SaveOpen ==
  /\ serverUp
  /\ saver.left = <<>> /\ saver.n < MaxSaves
  /\ saver' = [n |-> saver.n + 1, left |-> Snapshot(saver.n + 1)]
  /\ fs' = [fs EXCEPT ![sync_file] = [exists |-> TRUE, bytes |-> <<>>]]
  /\ UNCHANGED << serverUp, conn >>
  /\ UNCHANGED nonSyncVars

\* ... and writes the bytes, in one call of write or in several
SaveWrite(k) ==
  /\ serverUp
  /\ k \in 1..Len(saver.left)
  /\ fs' = [fs EXCEPT ![sync_file].bytes = @ \o SubSeq(saver.left, 1, k)]
  /\ saver' = [saver EXCEPT !.left = SubSeq(@, k + 1, Len(@))]
  /\ UNCHANGED << serverUp, conn >>
  /\ UNCHANGED nonSyncVars

NextSync ==
  \/ \E c \in Peers : Accept(c)
  \/ \E c \in Peers : PeerClose(c)
  \/ \E c \in Peers, k \in Commands : RecvCmd(c, k)
  \/ \E c \in Peers, len \in LenPrefixes : RecvLen(c, len)
  \/ \E c \in Peers : RecvByte(c)
  \/ \E c \in Peers : ReadFails(c)
  \/ SaveOpen
  \/ \E k \in 1..DocBytes : SaveWrite(k)

InitSync == DaemonStart /\ WatcherStart /\ CrdtStart /\ SyncStart /\ IndexStart /\ StoreStart /\ RagIdle /\ ChunkIdle /\ StreamIdle /\ PeerStart

SpecSync == InitSync /\ [][NextSync]_vars

\* ---------------------------------------------------------------------------
\* /sync-live: this store as the client of a peer's sync server
\* ---------------------------------------------------------------------------

\* the connection of this store to the peer's server
LiveConn == "p1"

\* the k-th memory the owner of the server added, and its document when it
\* saved for the n-th time
ServerMemory(k) ==
  StoreOp(Op(<<7 * k - 4, PeerActor>>, 7 * k + 2, "insMem", <<1, PeerActor>>,
             <<PeerActor, 7 * k - 4>>, "prefers spaces", "fact", 5, ""), 2 * k + 1, "",
          { IF k = 1 THEN <<2, PeerActor>> ELSE <<7 * k - 11, PeerActor>> })
ServerDoc(n) == NewDoc(PeerActor) \cup { ServerMemory(k) : k \in 1..n }

\* the document whose bytes a blob read from the server's file stands for:
\* a whole snapshot is the document of that save, anything else does not load
DocumentOf(bytes) ==
  IF \E n \in 1..(MaxSaves + 1) : bytes = Snapshot(n)
  THEN save(ServerDoc(CHOOSE n \in 1..(MaxSaves + 1) : bytes = Snapshot(n)))
  ELSE Corrupt

\* sync_with_peer: connect, read the own file, send SYNC, the length and the data
LiveConnect ==
  /\ store # {}
  /\ Accept(LiveConn)

\* the server reads the command, the length of this store's file and its bytes
LiveRecvCmd == RecvCmd(LiveConn, "SYNC")
LiveRecvLen ==
  \E len \in 0..MaxLen :
    /\ (len = 0) = (memories_file = <<>>)
    /\ RecvLen(LiveConn, len)
LiveRecvByte == RecvByte(LiveConn)

\* Variant: nothing is merged
LiveMerged_Dropped(d, data) == d

\* the "/sync-live" arm once sync_with_peer has returned the peer's data
LiveMerged(d, data) == IF data = <<>> THEN d ELSE MergeDoc(d, DocumentOf(data))

LiveMerge ==
  /\ conn[LiveConn].pc = "done" /\ conn[LiveConn].cmd = "SYNC"
  /\ last_call.name # "/sync-live"
  /\ LET data == conn[LiveConn].sent[1].data
         args == [NoArgs EXCEPT !.bytes = data]
     IN  IF data = <<>>
         THEN /\ last_call' = Called("/sync-live", args, NoMem)
              /\ UNCHANGED << store, memories_file, utc_now >>
         ELSE IF Loadable(DocumentOf(data))
         THEN /\ Saved(LiveMerged(store, data), Called("/sync-live", args, NoMem))
              /\ utc_now' = After(DocumentOf(data))
         ELSE /\ Refused(Failed("/sync-live", args, "load"))
              /\ UNCHANGED utc_now
  /\ UNCHANGED nonStoreVars

\* this store is changed by its owner only while no exchange is under way
LiveAdd(in) ==
  /\ conn[LiveConn].pc = "none"
  /\ StoreAdd(in)

NextLive ==
  \/ StoreNew
  \/ \E in \in StoreInputs : LiveAdd(in)
  \/ LiveConnect
  \/ LiveRecvCmd
  \/ LiveRecvLen
  \/ LiveRecvByte
  \/ SaveOpen
  \/ \E k \in 1..DocBytes : SaveWrite(k)
  \/ LiveMerge

InitLive ==
  /\ DaemonStart /\ WatcherStart /\ CrdtStart /\ SyncStart /\ IndexStart /\ StoreStart
  /\ RagIdle /\ ChunkIdle /\ StreamIdle /\ PeerStart

SpecLive == InitLive /\ [][NextLive]_vars

\* ---------------------------------------------------------------------------
\* /sync-pull, /sync-push, /sync-live: the commands and what the peer does
\* ---------------------------------------------------------------------------
SyncCommands == { "/sync-pull", "/sync-push", "/sync-live" }

\* What the peer at <host:port> does during one exchange: it does not accept
\* the connection ("refused"); it closes before it has sent anything
\* ("closed"); it sends a length prefix and closes before the data is
\* complete ("short"); it sends the length and the data ("complete"); to a
\* PUSH it answers with OK ("ack") or with other four bytes ("nak")
PeerBehaviours(cmd) ==
  LET b(kind, len, data) == [cmd |-> cmd, kind |-> kind, len |-> len, data |-> data]
  IN  { b("refused", 0, <<>>), b("closed", 0, <<>>) }
        \cup (IF cmd = "/sync-push"
              THEN { b("ack", 0, <<>>), b("nak", 0, <<>>) }
              ELSE { b("short", len, <<>>) : len \in { 1, UnallocatableLen, OverflowLen } }
                     \cup { b("complete", Len(data), data) : data \in { <<>>, PeerOwn, Corrupt } })

SyncErr(e) == [st |-> "err", e |-> e, data |-> <<>>]
SyncOk(data) == [st |-> "ok", e |-> "", data |-> data]

\* pull_from_peer and sync_with_peer: connect, send, read_exact of the
\* length, vec![0u8; len], read_exact of the data
pull_from_peer(b) ==
  CASE b.kind = "refused" -> { SyncErr("Connection refused") }
    [] b.kind = "closed" -> { SyncErr("early eof") }
    [] b.kind = "short" ->
         { IF a = "ok" THEN SyncErr("early eof") ELSE [st |-> a, e |-> "", data |-> <<>>] :
             a \in AllocOutcomes(b.len) }
    [] OTHER -> { SyncOk(b.data) }

\* push_to_peer: connect, read the own file, send, read the four bytes
push_to_peer(b, file) ==
  CASE b.kind = "refused" -> { SyncErr("Connection refused") }
    [] file = <<>> -> { SyncErr("No local sync data found") }
    [] b.kind = "closed" -> { SyncErr("early eof") }
    [] b.kind = "nak" -> { SyncErr("Push failed") }
    [] OTHER -> { SyncOk(<<>>) }

\* format!("Pull failed: {}", e) and the like: what comes before the error
FailText(cmd) ==
  CASE cmd = "/sync-pull" -> "Pull failed: "
    [] cmd = "/sync-push" -> "Push failed: "
    [] OTHER -> "Sync failed: "

\* process_request: Ok(Ok(result)) and Ok(Err(e)) of response_rx.await
Answered(success, text) == [some |-> TRUE, success |-> success, text |-> text]

\* one of the three arms of handle_command, with the peer behaving as b
SyncCommand(b) ==
  /\ process_up /\ owner_up
  /\ store # {}
  /\ syncs < MaxSyncs
  /\ syncs' = syncs + 1
  /\ exchange' = b
  /\ \E o \in (IF b.cmd = "/sync-push" THEN push_to_peer(b, memories_file)
                ELSE pull_from_peer(b)) :
       CASE o.st = "abort" ->
              /\ process_up' = FALSE
              /\ owner_up' = FALSE
              /\ cmd_result' = [some |-> FALSE, success |-> FALSE, text |-> <<>>]
              /\ UNCHANGED storeVars
         [] o.st = "panic" ->
              /\ owner_up' = FALSE
              /\ cmd_result' = Answered(FALSE, << "Response channel closed" >>)
              /\ UNCHANGED << process_up, storeVars >>
         [] o.st = "err" ->
              /\ cmd_result' = Answered(TRUE, << FailText(b.cmd), o.e >>)
              /\ UNCHANGED << process_up, owner_up, storeVars >>
         [] OTHER ->
              /\ UNCHANGED << process_up, owner_up >>
              /\ IF b.cmd = "/sync-push" \/ o.data = <<>>
                 THEN /\ cmd_result' = Answered(TRUE, << "Sent: ", "" >>)
                      /\ UNCHANGED storeVars
                 ELSE IF Loadable(o.data)
                 THEN /\ Saved(MergeDoc(store, o.data),
                               Called(b.cmd, [NoArgs EXCEPT !.bytes = o.data], NoMem))
                      /\ utc_now' = After(o.data)
                      /\ cmd_result' = Answered(TRUE, << "Sent: ", "" >>)
                 ELSE /\ Refused(Failed(b.cmd, [NoArgs EXCEPT !.bytes = o.data], "load"))
                      /\ UNCHANGED utc_now
                      /\ cmd_result' = Answered(FALSE, << "load" >>)
  /\ UNCHANGED nonStorePeerVars

\* the owner's other commands on the store, while the process runs
PeerStoreNew == process_up /\ store = {} /\ StoreNew
PeerStoreAdd(in) == process_up /\ owner_up /\ StoreAdd(in)

NextPeer ==
  \/ PeerStoreNew
  \/ \E in \in StoreInputs : PeerStoreAdd(in)
  \/ \E cmd \in SyncCommands : \E b \in PeerBehaviours(cmd) : SyncCommand(b)

InitPeer ==
  /\ DaemonStart /\ WatcherStart /\ CrdtStart /\ SyncStart /\ IndexStart /\ StoreStart
  /\ RagIdle /\ ChunkIdle /\ StreamIdle /\ PeerStart

SpecPeer == InitPeer /\ [][NextPeer]_vars

\* -------------------------------------------------------- codebase index
detect_language(p) ==
  CASE p.ext = "rs" -> "rust"
    [] p.ext = "py" -> "python"
    [] OTHER -> ""

\* fs::read_to_string(path).unwrap_or_default(): "" for bytes that are not UTF-8
read_to_string(p) == IF disk[p].utf8 THEN disk[p].text ELSE ""

\* Variant: the hash is taken over the bytes of the file
HashInput_FileBytes(p) == disk[p].text

\* compute_hash(&content): over the content read
HashInput(p) == read_to_string(p)

\* SHA-256 in hex; different texts have different hashes
compute_hash(t) == << "sha256", t >>

\* Variant: a file is never taken as unchanged
FileUnchanged_Never(p, hash) == FALSE

\* existing_hash.as_ref() == Some(&hash)
FileUnchanged(p, hash) == files_table[p].present /\ files_table[p].hash = hash

\* INSERT OR REPLACE INTO files_fts: the fts5 table is declared with the
\* columns path, content, symbols and no key, so the statement adds a row
FtsInsert(rows, content) == Append(rows, content)

\* the words of a text that a MATCH query can name
Words(text) ==
  CASE text = "pub fn foo(){}" -> { "pub", "fn", "foo" }
    [] text = "pub fn foo(){} pub fn baz(){}" -> { "pub", "fn", "foo", "baz" }
    [] text = "def bar(): pass" -> { "def", "bar", "pass" }
    [] text = "hello" -> { "hello" }
    [] OTHER -> {}

\* search(query, limit) for a one-word query and a limit above the number of
\* rows: the rows of files JOIN files_fts ON path WHERE files_fts MATCH query,
\* as <<path, fts row>>
search(query) ==
  { r \in UNION { { <<p, i>> : i \in DOMAIN files_fts[p] } : p \in IndexPaths } :
      files_table[r[1]].present /\ query \in Words(files_fts[r[1]][r[2]]) }

\* get_stats().total_files
total_files(table) == Cardinality({ p \in IndexPaths : table[p].present })

\* what a file is changed to
NewContents ==
  { TextFile("pub fn foo(){} pub fn baz(){}"),
    [exists |-> TRUE, utf8 |-> FALSE, text |-> "\\xff\\xfe"] }

\* a file under the root is created or rewritten
WriteFile(p, f) ==
  /\ edits < MaxEdits
  /\ disk[p] # f
  /\ disk' = [disk EXCEPT ![p] = f]
  /\ edits' = edits + 1
  /\ dirty' = TRUE
  /\ UNCHANGED << files_table, files_fts, walking, idxRet, now, runs >>
  /\ UNCHANGED nonIndexVars

\* index_directory is called: the walk is built
IndexBegin ==
  /\ ~walking.active
  /\ runs < MaxRuns
  /\ walking' = [active |-> TRUE,
                 rest |-> SelectSeq(WalkOrder, LAMBDA p : disk[p].exists /\ Walked(p)),
                 count |-> 0,
                 clean |-> (runs >= 1 /\ ~dirty),
                 before |-> files_table]
  /\ runs' = runs + 1
  /\ dirty' = FALSE
  /\ UNCHANGED << disk, files_table, files_fts, idxRet, now, edits >>
  /\ UNCHANGED nonIndexVars

\* the next entry of the walk: detect_language, then index_file
IndexEntry ==
  /\ walking.active /\ walking.rest # <<>>
  /\ LET p == Head(walking.rest)
         content == read_to_string(p)
         hash == compute_hash(HashInput(p))
     IN  IF detect_language(p) = "" \/ FileUnchanged(p, hash)
         THEN /\ walking' = [walking EXCEPT !.rest = Tail(@)]
              /\ UNCHANGED << files_table, files_fts, now >>
         ELSE /\ files_table' = [files_table EXCEPT ![p] =
                    [present |-> TRUE, language |-> detect_language(p), hash |-> hash,
                     content |-> content, indexed_at |-> now]]
              /\ files_fts' = [files_fts EXCEPT ![p] = FtsInsert(@, content)]
              /\ now' = now + 1
              /\ walking' = [walking EXCEPT !.rest = Tail(@), !.count = @ + 1]
  /\ UNCHANGED << disk, idxRet, edits, runs, dirty >>
  /\ UNCHANGED nonIndexVars

\* the walk is over: Ok(count)
IndexEnd ==
  /\ walking.active /\ walking.rest = <<>>
  /\ idxRet' = walking.count
  /\ walking' = [walking EXCEPT !.active = FALSE]
  /\ UNCHANGED << disk, files_table, files_fts, now, edits, runs, dirty >>
  /\ UNCHANGED nonIndexVars

NextIndex ==
  \/ \E p \in IndexPaths, f \in NewContents : WriteFile(p, f)
  \/ IndexBegin
  \/ IndexEntry
  \/ IndexEnd

InitIndex == DaemonStart /\ WatcherStart /\ CrdtStart /\ SyncStart /\ IndexStart /\ StoreStart /\ RagIdle /\ ChunkIdle /\ StreamIdle /\ PeerStart

SpecIndex == InitIndex /\ [][NextIndex]_vars

\* ------------------------------------------------------------ rag: chunks
\* A line is a declaration ("decl": trimmed, it starts with one of the
\* patterns of the language), other text ("code") or white space ("blank")
LineKinds == { "decl", "code", "blank" }

\* the files given to chunk_content, as their lines
ChunkFiles == UNION { [1..n -> LineKinds] : n \in 0..MaxLines }

\* self.config, with sizes scaled down to the files of the model
config == [chunk_size |-> 2, chunk_overlap |-> 1]

\* find_code_boundaries: 0, every later line that starts a declaration, and
\* lines.len(); indices count from 0
find_code_boundaries(lines) ==
  << 0 >> \o SelectSeq([i \in 1..(Len(lines) - 1) |-> i], LAMBDA i : lines[i + 1] = "decl")
         \o << Len(lines) >>

\* chunk_content.trim().is_empty() for lines[start..end]
BlankChunk(lines, start, end) == \A i \in (start + 1)..end : lines[i] = "blank"

\* the CodeChunk pushed for lines[start..end], if any
ChunkOf(lines, start, end) ==
  IF BlankChunk(lines, start, end) THEN << >>
  ELSE << [start_line |-> start + 1, end_line |-> end] >>

\* for window in boundaries.windows(2)
RECURSIVE BoundaryChunks(_, _, _)
BoundaryChunks(lines, boundaries, k) ==
  IF k >= Len(boundaries) THEN << >>
  ELSE ChunkOf(lines, boundaries[k], Min(boundaries[k + 1], Len(lines)))
         \o BoundaryChunks(lines, boundaries, k + 1)

saturating_sub(a, b) == IF a >= b THEN a - b ELSE 0

\* the loop of the else branch: windows of chunk_size lines, each starting
\* chunk_overlap lines before the end of the one before
RECURSIVE FixedChunks(_, _)
FixedChunks(lines, start) ==
  IF start >= Len(lines) THEN << >>
  ELSE LET end == Min(start + config.chunk_size, Len(lines))
       IN  ChunkOf(lines, start, end)
             \o (IF end >= Len(lines) THEN << >>
                 ELSE FixedChunks(lines, saturating_sub(end, config.chunk_overlap)))

chunk_content(lines) ==
  IF lines = << >> THEN << >>
  ELSE LET boundaries == find_code_boundaries(lines)
       IN  IF boundaries # << >>
           THEN BoundaryChunks(lines, boundaries, 1)
           ELSE FixedChunks(lines, 0)

ChunkCall ==
  /\ chunk_pc = "call"
  /\ chunks' = chunk_content(chunk_lines)
  /\ chunk_pc' = "done"
  /\ UNCHANGED chunk_lines
  /\ UNCHANGED nonChunkVars

InitChunk ==
  /\ DaemonStart /\ WatcherStart /\ CrdtStart /\ SyncStart /\ IndexStart /\ StoreStart
  /\ RagIdle
  /\ chunk_lines \in ChunkFiles
  /\ chunks = <<>>
  /\ chunk_pc = "call"
  /\ StreamIdle /\ PeerStart

NextChunk == ChunkCall

SpecChunk == InitChunk /\ [][NextChunk]_vars

\* ------------------------------------------------- WebSocket: chunks
\* A string is the sequence of its characters, a character the number of
\* bytes of its UTF-8 encoding; a byte is <<n, k>>: byte k of a character
\* of n bytes
Ascii(n) == [i \in 1..n |-> 1]

\* the characters a result ends with
Tails == UNION { [1..n -> 1..3] : n \in 0..MaxTail }

\* the ASCII characters before them: up to the end of the first and of the
\* second piece
AsciiRuns == { 0, chunk_size - 2, chunk_size - 1, chunk_size, 2 * chunk_size - 1 }

ResultStrings == { Ascii(n) \o t : n \in AsciiRuns, t \in Tails }

\* the bytes of one character
CharBytes(n) == [k \in 1..n |-> <<n, k>>]

\* result.as_bytes()
RECURSIVE as_bytes(_)
as_bytes(str) ==
  IF str = <<>> THEN <<>>
  ELSE IF Len(str) = 1 THEN CharBytes(str[1])
  ELSE LET half == Len(str) \div 2
       IN  as_bytes(SubSeq(str, 1, half)) \o as_bytes(SubSeq(str, half + 1, Len(str)))

\* .chunks(chunk_size): pieces of chunk_size bytes, the last one shorter
RECURSIVE chunks_of(_)
chunks_of(bytes) ==
  IF bytes = <<>> THEN <<>>
  ELSE IF Len(bytes) <= chunk_size THEN << bytes >>
  ELSE << SubSeq(bytes, 1, chunk_size) >> \o chunks_of(SubSeq(bytes, chunk_size + 1, Len(bytes)))

\* the bytes are whole characters one after the other: every byte that is
\* not the first of its character follows the byte before it, every byte that
\* is not the last is followed by the next
ValidUtf8(bytes) ==
  \A i \in DOMAIN bytes :
    LET n == bytes[i][1]
        k == bytes[i][2]
    IN  /\ k > 1 => (i > 1 /\ bytes[i - 1] = <<n, k - 1>>)
        /\ k < n => (i < Len(bytes) /\ bytes[i + 1] = <<n, k + 1>>)

\* the characters that begin in the bytes
Decode(bytes) ==
  LET leads == SelectSeq(bytes, LAMBDA b : b[2] = 1)
  IN  [i \in DOMAIN leads |-> leads[i][1]]

\* std::str::from_utf8(c).unwrap_or("")
from_utf8(bytes) == IF ValidUtf8(bytes) THEN Decode(bytes) ELSE <<>>

\* the `chunks` vector of the Ok(Ok(result)) arm
ResultChunks(result) ==
  LET pieces == chunks_of(as_bytes(result))
  IN  [i \in DOMAIN pieces |-> from_utf8(pieces[i])]

\* Ok(Ok(result)): the chunks are cut
StreamReply ==
  /\ ws_pc = "reply"
  /\ ws_chunks' = ResultChunks(ws_result)
  /\ ws_pc' = "streaming"
  /\ UNCHANGED << ws_result, ws_sent >>
  /\ UNCHANGED nonStreamVars

\* write.send(..).await?: the event is written, or the handler returns
StreamWrite(ev, next) ==
  \/ /\ ws_sent' = Append(ws_sent, ev)
     /\ ws_pc' = next
  \/ /\ ws_sent' = ws_sent
     /\ ws_pc' = "closed"

\* one pass of `for chunk in chunks`
StreamChunk ==
  /\ ws_pc = "streaming"
  /\ ws_chunks # <<>>
  /\ StreamWrite([event |-> "chunk", data |-> Some(Head(ws_chunks))], "streaming")
  /\ ws_chunks' = Tail(ws_chunks)
  /\ UNCHANGED ws_result
  /\ UNCHANGED nonStreamVars

\* the `complete` event after the loop
StreamComplete ==
  /\ ws_pc = "streaming"
  /\ ws_chunks = <<>>
  /\ StreamWrite([event |-> "complete", data |-> Absent], "reading")
  /\ UNCHANGED << ws_result, ws_chunks >>
  /\ UNCHANGED nonStreamVars

InitStream ==
  /\ DaemonStart /\ WatcherStart /\ CrdtStart /\ SyncStart /\ IndexStart /\ StoreStart
  /\ RagIdle /\ ChunkIdle
  /\ ws_result \in ResultStrings
  /\ ws_chunks = <<>>
  /\ ws_sent = <<>>
  /\ ws_pc = "reply"
  /\ PeerStart

NextStream ==
  \/ StreamReply
  \/ StreamChunk
  \/ StreamComplete

SpecStream == InitStream /\ [][NextStream]_vars

\* the data of the chunk events of a sequence of events, one after the other
RECURSIVE ChunkData(_)
ChunkData(evs) ==
  IF evs = <<>> THEN <<>>
  ELSE (IF Head(evs).event = "chunk" THEN Head(evs).data[1] ELSE <<>>) \o ChunkData(Tail(evs))

\* the number of bytes of a string
ByteLen(str) == Len(as_bytes(str))

\* ------------------------------------------------------------ helpers
Range(s) == {s[i] : i \in DOMAIN s}

IsPrefix(a, b) == Len(a) <= Len(b) /\ \A i \in DOMAIN a : a[i] = b[i]

DoneIds == {d.id : d \in done}

\* id of the message a task has outstanding
OutstandingId(c) == IF c = Watcher THEN <<c, wtSent>> ELSE <<c, Len(reqLog[c])>>

\* events written for the k-th frame of a WebSocket connection
EventsOf(w, k) == SelectSeq(resp[w], LAMBDA e : e.k = k)

\* ------------------------------------------------------------- claims

\* C1: at most one orchestrator command is executing at any time, and the
\* Orchestrator changes only in a step of the owner thread (its construction
\* or the end of a command).
C1_SingleOwner ==
  /\ [](Cardinality(executing) <= 1)
  /\ [][orch' # orch => (ownerPc \in {"starting", "exec"} /\ ownerPc' = "idle")]_vars

\* a command is executing while a message of another sender waits in the channel
C1_Witness ==
  /\ ownerPc = "exec"
  /\ \E i \in DOMAIN chan : chan[i].id[1] # cur.id[1]

\* C2: the owner receives messages in exactly the order in which they entered
\* the channel, and each command has finished before the next one is received.
C2_FifoOrder ==
  /\ IsPrefix(recvLog, enqLog)
  /\ \A i \in 1..(Len(recvLog) - 1) : recvLog[i] \in DoneIds

\* two messages of different senders that were queued together have been run
C2_Witness ==
  /\ Len(recvLog) >= 2
  /\ recvLog[1][1] # recvLog[2][1]
  /\ recvLog[2] \in DoneIds
  /\ enqLog[2] = recvLog[2]
  /\ Len(enqLog) >= 3

\* C3: on one line connection the k-th response written answers the k-th line
\* read, and the command of line k has finished before the command of a later
\* line of that connection is received, whatever other senders do.
C3_ConnectionOrder ==
  \A c \in Conns :
    /\ \A i \in DOMAIN resp[c] :
         /\ resp[c][i].k = i
         /\ reqLog[c][i].json = FALSE => resp[c][i].r.error = "Invalid request"
         /\ resp[c][i].r.success =>
              \E d \in done : /\ d.id = <<c, i>>
                              /\ d.input = FormatInput(reqLog[c][i].req)
                              /\ d.res.ok
                              /\ resp[c][i].r.result = Some([text |-> d.res.text, len |-> d.res.len])
    /\ \A i, j \in DOMAIN recvLog :
         (i < j /\ recvLog[i][1] = c /\ recvLog[j][1] = c) =>
           (recvLog[i][2] < recvLog[j][2] /\ recvLog[i] \in DoneIds)

\* a connection got two answers while another sender's command ran in between
C3_Witness ==
  \E c \in Conns :
    /\ Len(resp[c]) >= 2
    /\ resp[c][1].r.success
    /\ resp[c][2].r.success
    /\ \E i, l, j \in DOMAIN recvLog :
         i < l /\ l < j /\ recvLog[i] = <<c, 1>> /\ recvLog[j] = <<c, 2>> /\ recvLog[l][1] # c

\* C4: the channel never holds more than 100 messages; a send puts its
\* message into the channel only when there is a free place, and a sender held
\* by a full channel keeps its message until it enters the channel; a message
\* that entered the channel is there, or being run, or run, exactly once, and
\* the messages of one sender enter in the order they were sent.
C4_Backpressure ==
  /\ [](LET entered == Range(enqLog)
        IN  /\ Len(chan) <= 100
            /\ Cardinality(entered) = Len(enqLog)
            /\ \A c \in Clients :
                 LET mine == SelectSeq(enqLog, LAMBDA id : id[1] = c)
                 IN  /\ \A i \in 1..(Len(mine) - 1) : mine[i][2] < mine[i + 1][2]
                     /\ pc[c] = "sending" =>
                          (pendingMsg[c] # NoMsg /\ pendingMsg[c].id \notin entered)
                     /\ (pc[c] = "awaiting" /\ slot[c].st = "waiting") =>
                          Cardinality({i \in DOMAIN chan : chan[i].id = OutstandingId(c)})
                            + (IF cur.id = OutstandingId(c) THEN 1 ELSE 0) = 1
            /\ \A id \in everBlocked :
                 \/ \E c \in Clients : pc[c] = "sending" /\ pendingMsg[c].id = id
                 \/ id \in entered
                 \/ RxClosed
                 \/ shutdown)
  /\ [][\A c \in Clients :
          (pc[c] = "sending" /\ pc'[c] = "awaiting") =>
            (Len(chan) < 100 /\ chan' = Append(chan, pendingMsg[c]))]_vars

\* a message whose send had to wait for a free place was delivered and run
C4_Witness ==
  \E id \in everBlocked : id \in DoneIds /\ id \in Range(recvLog)

\* C5: a command that returns an error is answered with success=false, no
\* result and the error's message, and the handler goes back to reading the
\* next line of the same connection.
C5_CommandError ==
  /\ [](\A c \in Conns : \A i \in DOMAIN resp[c] : \A d \in done :
          (d.id = <<c, resp[c][i].k>> /\ ~d.res.ok) =>
            resp[c][i].r = [success |-> FALSE, result |-> Absent, error |-> d.res.text])
  /\ [][\A c \in Conns :
          (Len(resp'[c]) > Len(resp[c]) /\ ~resp'[c][Len(resp'[c])].r.success) =>
            pc'[c] = "reading"]_vars

\* an error response was followed by a successful one on the same connection
C5_Witness ==
  \E c \in Conns :
    /\ Len(resp[c]) >= 2
    /\ resp[c][1].r.error = "backend unavailable"
    /\ resp[c][2].r.success

\* C6 as stated: with the owner thread terminated, every answer to a
\* well-formed request reads `Orchestrator thread terminated`.
C6_Original ==
  ownerPc = "dead" =>
    /\ \A c \in Conns : \A i \in DOMAIN resp[c] :
         reqLog[c][i].json =>
           (~resp[c][i].r.success /\ resp[c][i].r.error = "Orchestrator thread terminated")
    /\ \A w \in WsConns : \A i \in DOMAIN resp[w] :
         reqLog[w][resp[w][i].k].json =>
           (resp[w][i].event = "error" /\ resp[w][i].data = Some("Orchestrator thread terminated"))

\* C6 amended: with the owner thread terminated, a well-formed request that
\* had not entered the channel is answered with success=false and
\* `Orchestrator thread terminated`; one that was already in the channel is
\* answered with success=false and `Response channel closed`.
C6_Amended ==
  ownerPc = "dead" =>
    /\ \A c \in Conns : \A i \in DOMAIN resp[c] :
         reqLog[c][i].json =>
           /\ ~resp[c][i].r.success
           /\ resp[c][i].r.result = Absent
           /\ resp[c][i].r.error =
                IF <<c, i>> \in Range(enqLog) THEN "Response channel closed"
                ELSE "Orchestrator thread terminated"
    /\ \A w \in WsConns : \A i \in DOMAIN resp[w] :
         reqLog[w][resp[w][i].k].json =>
           /\ resp[w][i].event = "error"
           /\ resp[w][i].data =
                IF <<w, resp[w][i].k>> \in Range(enqLog) THEN Some("Response channel closed")
                ELSE Some("Orchestrator thread terminated")

\* after the owner terminated one request was refused at send and another,
\* queued before, lost its reply
C6_Witness ==
  /\ ownerPc = "dead"
  /\ \E c \in Conns : \E i \in DOMAIN resp[c] :
       resp[c][i].r.error = "Orchestrator thread terminated"
  /\ \E c \in Conns : \E i \in DOMAIN resp[c] :
       resp[c][i].r.error = "Response channel closed"

C8_DroppedReply ==
  [][(ownerPc = "exec" /\ ownerPc' # "exec") =>
       (ownerPc' = "idle" /\ cur.id \in {d.id : d \in done'})]_vars

\* two tasks were cancelled with their commands not yet replied to, and the
\* owner has run both commands and then stopped
C8_Witness ==
  /\ ownerPc = "stopped"
  /\ \E c1, c2 \in Clients :
       /\ c1 # c2
       /\ slot[c1].st = "rxdropped" /\ OutstandingId(c1) \in DoneIds
       /\ slot[c2].st = "rxdropped" /\ OutstandingId(c2) \in DoneIds

\* C9: the events written for a well-formed WebSocket request carry its id
\* and are chunks followed by one complete, or one error alone; they are a
\* prefix of that while the request is being answered, complete once the
\* handler reads again, and no event of an earlier request follows.
C9_WsEvents ==
  \A w \in WsConns :
    /\ \A i, j \in DOMAIN resp[w] : i < j => resp[w][i].k <= resp[w][j].k
    /\ \A k \in DOMAIN reqLog[w] :
         reqLog[w][k].json =>
           LET E == EventsOf(w, k)
           IN  /\ \A i \in DOMAIN E : E[i].id = reqLog[w][k].id
               /\ \A i \in 1..(Len(E) - 1) : E[i].event = "chunk"
               /\ (E # <<>> /\ E[Len(E)].event = "error") => Len(E) = 1
               /\ (k < Len(reqLog[w]) \/ pc[w] = "reading") =>
                    (E # <<>> /\ E[Len(E)].event \in {"complete", "error"})
               /\ (E # <<>> /\ E[Len(E)].event = "complete") =>
                    \E d \in done : /\ d.id = <<w, k>>
                                    /\ d.res.ok
                                    /\ (Len(E) - 1) * 100 >= d.res.len
                                    /\ (Len(E) - 2) * 100 < d.res.len

\* a request was answered by three chunks and a complete, and the next
\* request of the connection by a complete without chunk
C9_Witness ==
  \E w \in WsConns :
    /\ Len(EventsOf(w, 1)) = 4
    /\ EventsOf(w, 1)[4].event = "complete"
    /\ Len(EventsOf(w, 2)) = 1
    /\ EventsOf(w, 2)[1].event = "complete"

\* C10: once an `/index <path>` command has been run by the owner, it was
\* recognised and the Orchestrator holds a codebase index.
C10_IndexRecognised ==
  \A d \in done :
    SplitCmd(Trim(d.input)).cmd = <<"/index">> =>
      (d.res.text # "Unknown command" /\ orch.codebase # None)

\* admitted events the coalescer has received and no message has covered yet
Uncovered ==
  { n \in DOMAIN evLog : evLog[n].burst # 0 /\ evLog[n].cover = 0 /\ n \notin Queued }

\* C11: a burst of create/modify/remove events on admitted files, each less
\* than 500 ms after the one before, gives exactly one `/index <root>`
\* message: the events of one burst are covered by one and the same message,
\* every message covers at least one event, and events that were received are
\* dispatched when 500 ms have passed since the last receipt.
C11_Debounce ==
  /\ \A m, n \in DOMAIN evLog :
       (evLog[m].burst # 0 /\ evLog[m].burst = evLog[n].burst /\ evLog[m].cover # 0) =>
         evLog[n].cover = evLog[m].cover
  /\ { evLog[n].cover : n \in DOMAIN evLog } \ {0} = 1..Len(wtOut)
  /\ Uncovered # {} =>
       (wtTask = "select" /\ pending_paths # {} /\ sinceLast + sleepLeft = DEBOUNCE_DELAY)
  /\ \A i \in DOMAIN wtOut :
       wtOut[i] \in { <<"/index", " ", PathText(root)>> : root \in MarkerDirs }

\* a burst of two events 400 ms apart was answered by one message, and a
\* later burst by a second one
C11_Witness ==
  /\ Len(wtOut) = 2
  /\ Len(evLog) >= 3
  /\ \E m, n \in DOMAIN evLog :
       m < n /\ evLog[m].burst = 1 /\ evLog[n].burst = 1 /\ evLog[m].cover = 1 /\ evLog[n].cover = 1
  /\ \E n \in DOMAIN evLog : evLog[n].burst = 2 /\ evLog[n].cover = 2
  /\ wtTask = "select" /\ pending_paths = {}

Snapshots == { doc[r] : r \in Replicas } \cup { load(exported) }

\* merge(merge(a, b), c) and merge(a, merge(b, c)) read the same memories
SameEitherWay(a, b, c) ==
  LET ab == MergeDoc(a, export(b))
      bc == MergeDoc(b, export(c))
  IN  get_all(MergeDoc(ab, export(c))) = get_all(MergeDoc(a, export(bc)))

Paired(r, s) == r # s /\ since[r].from = s /\ since[s].from = r

\* the shared memories and those added on either side, less those deleted on either
Expected(r, s) ==
  (since[r].base \cup since[r].added \cup since[s].added)
    \ (since[r].deleted \cup since[s].deleted)

\* C15: For two replicas that started from the same exported document, once
\* each has merged the other's export, the ids each returns are the shared
\* base, plus every memory added on either one, minus every memory deleted on
\* either one: adds made on both sides are all kept, and a deleted memory does
\* not come back from the replica that still held it.
C15_AddsKeptDeletesStay ==
  \A r, s \in Replicas :
    Paired(r, s) =>
      /\ MemoryIds(MergeDoc(doc[r], export(doc[s]))) = Expected(r, s)
      /\ doc[r] = doc[s] => MemoryIds(doc[r]) = Expected(r, s)

\* One replica deleted a shared memory, the other still held it and added a
\* memory of its own, both have merged, and one memory is left:
\* ("fact", "prefers spaces").
C15_Witness ==
  \E r, s \in Replicas :
    /\ Paired(r, s)
    /\ doc[r] = doc[s]
    /\ since[r].deleted \cap since[r].base # {}
    /\ since[r].added # {}
    /\ \E m \in get_all(doc[s]) :
         /\ get_all(doc[s]) = {m}
         /\ m.content = "prefers spaces" /\ m.memory_type = "Fact"

\* C16: No step of a sync connection changes memories.automerge, whether its
\* PUSH runs to the end or the peer stops at any byte: the file changes only
\* in a step of the owner's save, and a completed PUSH has written its blob to
\* the file with the extension replaced by "incoming".
C16_PushLeavesPrimary ==
  [][ /\ fs'[sync_file] # fs[sync_file] => (saver' # saver /\ conn' = conn)
      /\ \A c \in Peers :
           (conn'[c].wrote /\ ~conn[c].wrote) =>
             /\ fs'[<< "memories", "incoming" >>] = [exists |-> TRUE, bytes |-> Blob(conn'[c].len)]
             /\ \A p \in Paths \ { << "memories", "incoming" >> } : fs'[p] = fs[p]
    ]_vars

\* One PUSH has completed and one was cut short inside its blob, while the
\* document file holds a saved document.
C16_Witness ==
  /\ fs[sync_file] = [exists |-> TRUE, bytes |-> Snapshot(1)]
  /\ \E c, d \in Peers :
       /\ conn[c].cmd = "PUSH" /\ conn[c].pc = "done" /\ conn[c].len = MaxLen
       /\ conn[d].cmd = "PUSH" /\ conn[d].pc = "err" /\ conn[d].got >= 1
  /\ fs[<< "memories", "incoming" >>].bytes = Blob(MaxLen)

\* the peer sent a command the server does not know, or closed before the
\* command, the length prefix or the blob was complete
Malformed(c) ==
  \/ conn[c].cmd \notin { "", "PUSH", "PULL", "SYNC" }
  \/ conn[c].eof /\ conn[c].pc # "done"

\* the process stopped in the handler of connection c
StoppedBy(c) == ~serverUp /\ conn[c].pc = "killed" /\ conn[c].len >= UnallocatableLen

\* C17: A connection whose command is unknown, or whose command, length
\* prefix or blob is cut short, is sent nothing, writes no file, and does not
\* stop the server: its handler ends with an error of its own.
C17_ErrorsStayLocal ==
  \A c \in Peers :
    Malformed(c) => (conn[c].sent = <<>> /\ ~conn[c].wrote /\ ~StoppedBy(c))

\* C18: The blob a PULL or SYNC is answered with while the owner is rewriting
\* the document file is a whole saved document: the one of the save before or
\* the one of the save under way.
C18_WholeSnapshot ==
  \A c \in Peers :
    conn[c].racing # 0 =>
      \/ conn[c].sent = << Frame(Snapshot(conn[c].racing - 1)) >>
      \/ conn[c].sent = << Frame(Snapshot(conn[c].racing)) >>

\* C19: An index_directory call that follows an earlier call, with no file
\* changed since that earlier call began, writes no row (content, hash and
\* indexed_at of every row stay as they were), returns 0, and leaves
\* total_files as it was.
C19_SecondIndexIsNoOp ==
  (walking.clean /\ ~dirty) =>
    /\ files_table = walking.before
    /\ walking.count = 0
    /\ total_files(files_table) = total_files(walking.before)
    /\ ~walking.active => idxRet = 0

\* The second call has returned after a first call indexed three files, and
\* no file has changed since.
C19_Witness ==
  /\ walking.clean /\ ~dirty /\ ~walking.active
  /\ runs = 2 /\ idxRet = 0
  /\ total_files(files_table) = 3

\* C20: Whatever files were created or modified and whenever index_directory
\* ran, every row of the files table has hash = SHA-256 of the row's content.
C20_HashIntegrity ==
  \A p \in IndexPaths :
    files_table[p].present => files_table[p].hash = compute_hash(files_table[p].content)

\* A row was replaced after its file was modified, and a row holds the empty
\* content read from a file that is not UTF-8.
C20_Witness ==
  /\ \E p \in IndexPaths :
       files_table[p].present /\ files_table[p].content = "pub fn foo(){} pub fn baz(){}"
  /\ \E p \in IndexPaths :
       files_table[p].present /\ files_table[p].content = "" /\ ~disk[p].utf8

\* C21: Every memory a store returns has an importance within [0, 1] (0..10
\* in tenths): update_importance given a value outside stores it clamped.
C21_ImportanceClamped ==
  \A r \in Replicas :
    \A m \in get_all(doc[r]) : 0 <= m.importance /\ m.importance <= 10

\* the entries get_all reads from document d
Entries(d) == { op \in d : IsVisible(d, op) }

\* C22: Across every add, update_importance, add_tag, delete and merge, an
\* entry a store returned before the call and still returns after it has the
\* same id and every tag it had before; an entry the store no longer returns
\* has been deleted.
C22_IdsFixedTagsGrow ==
  [][ \A r \in Replicas :
        \A e \in Entries(doc[r]) :
          IF e \in Entries(doc'[r])
          THEN /\ read_memory(doc'[r], e).id = read_memory(doc[r], e).id
               /\ TagsOf(doc[r], e) \subseteq TagsOf(doc'[r], e)
          ELSE IsDeleted(doc'[r], e.id)
    ]_vars

\* C26: The coalescer sends a message only from a state with a non-empty
\* pending set and at least DEBOUNCE_DELAY since the last received event, and
\* then exactly one; when process_changes has returned and the loop goes on,
\* the pending set is empty; a sleep that completes with an empty pending set
\* sends nothing.
C26_DispatchGuard ==
  [][ /\ wtOut' # wtOut =>
           /\ pending_paths # {} /\ sinceLast >= DEBOUNCE_DELAY
           /\ wtTask = "select" /\ sleepLeft = 0
           /\ Len(wtOut') = Len(wtOut) + 1
      /\ (wtTask = "processing" /\ wtTask' = "select") => pending_paths' = {}
      /\ (wtTask = "select" /\ sleepLeft = 0 /\ pending_paths = {}) => wtOut' = wtOut
    ]_vars

\* One message was sent, the pending set was cleared and the sleep started
\* anew, and later a sleep completed with nothing pending.
C26_Witness ==
  /\ Len(wtOut) = 1
  /\ wtTask = "select" /\ pending_paths = {}
  /\ sleepLeft = 0 /\ rx = <<>>

\* C30: When the walk of index_directory comes to a file whose content cannot
\* be read as text, it writes no row for it, does not count it, and goes on
\* with the remaining entries.
C30_UnreadableSkipped ==
  [][ ( /\ walking.active /\ walking.rest # <<>>
        /\ ~disk[Head(walking.rest)].utf8
        /\ walking'.rest = Tail(walking.rest) )
      => /\ files_table' = files_table
         /\ walking'.count = walking.count
         /\ walking'.active
    ]_vars

Mutators ==
  { "add", "add_with_project", "update_importance", "add_tag", "delete", "merge",
    "apply_sync_changes" }

\* C23: After every store mutation that returned Ok, memories.automerge holds
\* the full snapshot of the document in memory: a store made anew on the same
\* directory has the same operations, so the same memories with the same
\* content, type, importance, tags, timestamp and project.
C23_FileIsSnapshot ==
  (last_call.name \in Mutators /\ last_call.ok) =>
     /\ memories_file = SaveOps(store)
     /\ new_store(memories_file) = store
     /\ get_all(new_store(memories_file)) = get_all(store)

\* An exported document of a peer was merged and saved, after an add and a
\* change of importance of this store.
C23_Witness ==
  /\ last_call.name = "merge" /\ last_call.ok
  /\ \E op \in store : op.kind = "putImp"
  /\ \E op \in store : op.kind = "insMem" /\ op.id[2] = PeerActor
  /\ Len(memories_file) >= 5

C28_NotFoundChangesNothing ==
  [][ /\ ( /\ last_call' # last_call
           /\ last_call'.name \in {"update_importance", "add_tag", "delete"}
           /\ last_call'.args.id \notin MemoryIds(store) )
         => /\ ~last_call'.ok /\ last_call'.err = "Memory not found"
            /\ store' = store
            /\ memories_file' = memories_file
      /\ ( /\ ~last_call.ok /\ last_call.err = "Memory not found"
           /\ last_call'.name = "add" )
         => /\ last_call'.ok
            /\ count(store') = count(store) + 1
            /\ memories_file' = SaveOps(store')
    ]_vars

\* A delete of an id nobody has was refused on a store that holds entries and
\* has a file.
C28_Witness ==
  /\ last_call.name = "delete" /\ ~last_call.ok
  /\ last_call.args.id = MissingId
  /\ count(store) >= 1
  /\ memories_file # <<>>

Larger(a, b) == IF a >= b THEN a ELSE b

C29_DeltaIffLacking ==
  last_call.name = "generate_sync_message" =>
    LET peer == load(last_call.peer)
    IN  /\ last_call.some = (\E op \in store : op \notin peer)
        /\ last_call.some =>
             get_all(store) \subseteq get_all(load_incremental(peer, last_call.data))

\* C34: An event that arrives while process_changes waits for the reply stays
\* in the channel: no step of the task in that state takes it out, and the
\* clearing step removes nothing from the channel; it is received after the
\* reply, its admitted paths are then added to the pending set, and every
\* admitted event is in the end covered by an `/index` message sent after it
\* was received.
C34_QueuedEventsKept ==
  /\ [][ /\ wtTask = "processing" => (Len(rx') >= Len(rx) /\ SubSeq(rx', 1, Len(rx)) = rx)
         /\ (rx # <<>> /\ rx' = Tail(rx)) =>
              /\ wtTask = "select"
              /\ pending_paths' =
                   pending_paths \cup { p \in Head(rx).paths : should_index(p) }
       ]_vars
  /\ \A n \in 1..MaxEvents :
       (Len(evLog) >= n /\ evLog[n].burst # 0) ~> (Len(evLog) >= n /\ evLog[n].cover # 0)

\* An admitted event came while the reply to the first message was awaited,
\* and a second message, sent after the event was received, covers it.
C34_Witness ==
  /\ Len(wtOut) = 2
  /\ \E n \in DOMAIN evLog :
       evLog[n].burst # 0 /\ evLog[n].during = 1 /\ evLog[n].cover = 2

C35_EveryEventRestarts ==
  [][ /\ (rx # <<>> /\ rx' = Tail(rx)) => (sinceLast' = 0 /\ sleepLeft' = DEBOUNCE_DELAY)
      /\ wtOut' # wtOut =>
           (sleepLeft = 0 /\ sinceLast >= DEBOUNCE_DELAY /\ rx' = rx)
    ]_vars

\* A path is pending and an event with no admitted path has just been taken
\* from the channel, some time after the last admitted one arrived: the wait
\* has started again
C35_Witness ==
  /\ wtOut = <<>>
  /\ pending_paths # {}
  /\ rx = <<>>
  /\ sinceLast = 0
  /\ quiet > 0
  /\ sleepLeft = DEBOUNCE_DELAY

\* C37: When two stores that were each created on an empty directory have
\* been merged in both directions, so that they hold the same operations,
\* get_all of either lists every memory that was added on one of them and
\* deleted on none.
C37_IndependentUnion ==
  \A r \in Replicas :
    ( /\ \A s \in Replicas : doc[s] = doc[r]
      /\ { op.id[2] : op \in { o \in doc[r] : o.kind = "makeList" } } = Replicas ) =>
      \A op \in doc[r] :
        (op.kind = "insMem" /\ ~IsDeleted(doc[r], op.id)) => op.mem \in MemoryIds(doc[r])

\* C31: The files table has no row for a file under a directory named
\* node_modules, target, build, dist, .git, __pycache__, venv or .venv,
\* whether a gitignore rule names the directory or not.
C31_SkipDirsNotIndexed ==
  \A p \in IndexPaths :
    (\E i \in DOMAIN p.dirs : p.dirs[i] \in skip_dirs) => ~files_table[p].present

\* C38: files_fts holds one row for every row of files, with that row's
\* content; search gives a file at most once, and only for a word of the
\* content its files row holds.
C38_FtsMirrorsFiles ==
  /\ \A p \in IndexPaths :
       IF files_table[p].present
       THEN files_fts[p] = << files_table[p].content >>
       ELSE files_fts[p] = <<>>
  /\ \A q \in { "foo", "baz", "bar" } :
       /\ \A r, t \in search(q) : r[1] = t[1] => r = t
       /\ \A r \in search(q) : q \in Words(files_table[r[1]].content)

\* C32: For a file in which no line after the first starts a declaration,
\* chunk_content returns the windows of the fixed-size loop: every chunk has
\* at most chunk_size lines, and a file of more than chunk_size lines that
\* are not blank gives more than one chunk.
C32_FixedWindows ==
  ( /\ chunk_pc = "done"
    /\ \A i \in 2..Len(chunk_lines) : chunk_lines[i] # "decl" ) =>
      /\ chunks = FixedChunks(chunk_lines, 0)
      /\ \A k \in DOMAIN chunks :
           chunks[k].end_line - chunks[k].start_line + 1 <= config.chunk_size
      /\ ( /\ Len(chunk_lines) > config.chunk_size
           /\ \A i \in DOMAIN chunk_lines : chunk_lines[i] # "blank" ) => Len(chunks) > 1

\* C39: When the `complete` event of a successful command has been written,
\* the data of the `chunk` events written before it, put together in order,
\* is the result string, also for a result with characters of several bytes;
\* every chunk holds at most chunk_size bytes; an empty result gives no
\* chunk.
C39_ChunksGiveResult ==
  /\ \A i \in DOMAIN ws_sent :
       ws_sent[i].event = "chunk" => ByteLen(ws_sent[i].data[1]) <= chunk_size
  /\ ws_pc = "reading" =>
       /\ ChunkData(ws_sent) = ws_result
       /\ ws_sent[Len(ws_sent)].event = "complete"
       /\ Cardinality({ i \in DOMAIN ws_sent : ws_sent[i].event = "complete" }) = 1
       /\ ws_result = <<>> => Len(ws_sent) = 1

C40_FailedSyncIsOk ==
  [][ (syncs' # syncs /\ exchange'.kind \in { "refused", "closed", "short" }) =>
        /\ cmd_result'.some /\ cmd_result'.success
        /\ cmd_result'.text[1] =
             (CASE exchange'.cmd = "/sync-pull" -> "Pull failed: "
                [] exchange'.cmd = "/sync-push" -> "Push failed: "
                [] OTHER -> "Sync failed: ")
        /\ store' = store /\ memories_file' = memories_file
    ]_vars
====
